---- MODULE Spec2Model ----
(***************************************************************************)
(* Verification model of tike's ptychography core:                         *)
(*   - tike.ptycho.probe.update_eigen_probe and the communicator calls it  *)
(*     makes (pool.map, pool.bcast, pool.reduce_mean, Allreduce_mean),     *)
(*   - the distributed-mean test of tests/communicators/test_comm.py,      *)
(*   - tike.operators.Ptycho as a context manager,                         *)
(*   - tike.ptycho.solvers.divided,                                        *)
(*   - tike.operators.cupy.Patch (fwd, adj) and the block size of its      *)
(*     kernel launches,                                                    *)
(*   - the cost functions of tike.operators.cupy.objective and of          *)
(*     tike.operators.Propagation,                                         *)
(*   - tike.ptycho.probe: constrain_probe_sparsity,                        *)
(*     constrain_variable_probe, init_varying_probe, get_varying_probe.    *)
(*                                                                         *)
(* Arithmetic.  The arrays of update_eigen_probe hold float32 and          *)
(* complex64 values and every operation on them is rounded as NumPy        *)
(* rounds it (the program names its array module np; on a GPU the arrays   *)
(* are CuPy's).  The binary64 product of constrain_probe_sparsity (line    *)
(* 541) is rounded bit by bit.  The array elements of the other            *)
(* components are exact rationals <<num, den>>, with the IEEE values inf,  *)
(* -inf and nan as <<1, 0>>, <<-1, 0>> and <<0, 0>>.                        *)
(* Arrays over the trailing pixel axes (WIDE, HIGH) are represented by a   *)
(* single pixel, so a mean over the pixel axes is the pixel itself and     *)
(* mnorm(x) = sqrt(mean(|x|^2)) is |x|.  The leading axes (angular view    *)
(* "...", POSI, EIGEN, SHARED) are kept.                                   *)
(***************************************************************************)
EXTENDS Integers, Sequences, FiniteSets, TLC

VARIABLES
    ep,           \* update_eigen_probe: control state of the call (pc, tasks, arguments)
    R,            \* R[w][v][p]            residual probe updates, per worker
    patches,      \* patches[w][v][p]
    diff,         \* diff[w][v][p]
    eigen_probe,  \* eigen_probe[w][v][e][s]  (e = 0..Eigen-1, s = 0..Shared-1)
    weights,      \* weights[w][v][p][e][s]   (e = 0..Eigen)
    update,       \* the list `update`, one entry per worker
    n,            \* the list `n`
    d,            \* the list `d`
    d_mean,       \* the list `d_mean`
    pt,           \* a `with Ptycho(...) as op:` block and the two sub-operators
    cm,           \* a run of one communicator test on every MPI rank
    dv,           \* a call of divided(): position, arguments, locals, call log
    pa,           \* a call of Patch.fwd or Patch.adj: arguments, position, buffers
    co,           \* an evaluation of the noise-model costs on a batch and on its copies
    cs,           \* a call of constrain_probe_sparsity or constrain_variable_probe
    vp,           \* init_varying_probe followed by get_varying_probe
    kb            \* the kernel launch of Patch.fwd or Patch.adj: block size

eigenVars == <<ep, R, patches, diff, eigen_probe, weights, update, n, d, d_mean>>

vars == <<ep, R, patches, diff, eigen_probe, weights, update, n, d, d_mean, pt, cm, dv,
          pa, co, cs, vp, kb>>

-----------------------------------------------------------------------------
(* Bounds of the model *)

MaxWorkers == 2
MaxScopes == 2
MaxCgIter == 2
MaxOuter == 2
MaxBodyOps == 2
MaxViews == 2
MaxNodes == 2
NumPos == 2
Eigen == 2
Shared == 2
NumSeeds == 7
NumDataSeeds == 4

-----------------------------------------------------------------------------
(* Exact rational arithmetic with the IEEE values inf, -inf and nan *)

Abs(x) == IF x < 0 THEN -x ELSE x

RECURSIVE GCD(_, _)
GCD(a, b) == IF b = 0 THEN a ELSE GCD(b, a % b)

LCM(a, b) == (a \div GCD(a, b)) * b

Sgn(k) == IF k > 0 THEN 1 ELSE IF k < 0 THEN -1 ELSE 0

\* the IEEE values that are no numbers of their own: <<1, 0>> is inf,
\* <<-1, 0>> is -inf and <<0, 0>> is nan
Inf == <<1, 0>>

NegInf == <<-1, 0>>

NaN == <<0, 0>>

IsFinite(x) == x[2] # 0

IsNaN(x) == x = NaN

\* num / den in lowest terms; num / 0 is inf, -inf or nan by the sign of num
Rat(num, den) ==
    IF den = 0 THEN <<Sgn(num), 0>>
    ELSE LET g == GCD(Abs(num), Abs(den))
             s == IF den < 0 THEN -1 ELSE 1
         IN  <<(s * num) \div g, (s * den) \div g>>

I(k) == <<k, 1>>

Zero == I(0)

\* x + y: inf + (-inf) and anything + nan are nan
RAdd(x, y) ==
    IF IsFinite(x) /\ IsFinite(y)
    THEN LET l == LCM(x[2], y[2])
         IN  Rat(x[1] * (l \div x[2]) + y[1] * (l \div y[2]), l)
    ELSE IF IsNaN(x) \/ IsNaN(y) THEN NaN
    ELSE IF IsFinite(x) THEN y
    ELSE IF IsFinite(y) THEN x
    ELSE IF x = y THEN x ELSE NaN

\* x * y: inf * 0 and anything * nan are nan
RMul(x, y) ==
    IF IsFinite(x) /\ IsFinite(y)
    THEN LET g == GCD(Abs(x[1]), y[2])
             h == GCD(Abs(y[1]), x[2])
         IN  Rat((x[1] \div g) * (y[1] \div h), (x[2] \div h) * (y[2] \div g))
    ELSE <<Sgn(x[1]) * Sgn(y[1]), 0>>

\* x / y as numpy computes it, no exception: x / 0 is inf, -inf or nan (the
\* divisors of the program are sums of squares and norms, never -0.0), a
\* finite x / inf is 0, inf / inf and anything with nan are nan
RDiv(x, y) ==
    IF IsFinite(x) /\ IsFinite(y)
    THEN IF y[1] = 0 THEN <<Sgn(x[1]), 0>>
         ELSE RMul(x, <<Sgn(y[1]) * y[2], Abs(y[1])>>)
    ELSE IF IsNaN(x) \/ IsNaN(y) THEN NaN
    ELSE IF IsFinite(x) THEN Zero
    ELSE IF IsFinite(y) THEN <<x[1] * (IF y[1] < 0 THEN -1 ELSE 1), 0>>
    ELSE NaN

RAbs(x) == <<Abs(x[1]), x[2]>>

RECURSIVE RSumSet(_, _)
RSumSet(f, S) ==
    IF S = {} THEN Zero
    ELSE LET k == CHOOSE k \in S : TRUE
         IN  RAdd(f[k], RSumSet(f, S \ {k}))

\* np.sum / np.mean of a one-axis array f (a function over its index set)
RSum(f) == RSumSet(f, DOMAIN f)

RMean(f) == RDiv(RSum(f), I(Cardinality(DOMAIN f)))

-----------------------------------------------------------------------------
(* Communicator: tike.communicators.Comm (pool + mpi)                      *)
(* A per-worker list is a function from the workers 0..N-1; an array is a  *)
(* function from its index set to rationals.                               *)

\* pool.bcast([x]): every worker of the pool receives a copy of x
bcast(x, workers) == [w \in workers |-> x]

\* pool.reduce_mean(xs, axis): element-wise average of the per-worker arrays
reduce_mean(xs) ==
    LET w0 == CHOOSE w \in DOMAIN xs : TRUE
    IN  [i \in DOMAIN xs[w0] |-> RMean([w \in DOMAIN xs |-> xs[w][i]])]

\* mpi.Allreduce(src): element-wise sum of this node's src and the src of
\* every other node (remote[k], k = 1..size-1)
mpi_Allreduce(src, remote) ==
    [i \in DOMAIN src |->
        RAdd(src[i], RSum([k \in DOMAIN remote |-> remote[k][i]]))]

\* mutant: the cross-node sum is not divided by mpi.size
Allreduce_mean_NoDivide(xs, remote) == mpi_Allreduce(reduce_mean(xs), remote)

\* comm.Allreduce_mean(xs, axis): per-node reduce_mean, then the cross-node
\* sum divided by mpi.size
Allreduce_mean(xs, remote) ==
    LET src == reduce_mean(xs)
        tot == mpi_Allreduce(src, remote)
        size == Cardinality(DOMAIN remote) + 1
    IN  [i \in DOMAIN tot |-> RDiv(tot[i], I(size))]

-----------------------------------------------------------------------------
(* binary32 (float32) and complex64 arithmetic, as NumPy computes the       *)
(* arrays of update_eigen_probe.  A float32 value is <<m, e>>, the number   *)
(* m * 2^e with m odd, |m| < 2^MantBits and e >= MinExp; zero is <<0, 0>>.  *)
(* The exponent SpecialExp marks the values that are no numbers:            *)
(* <<1, SpecialExp>> is inf, <<-1, SpecialExp>> is -inf and                 *)
(* <<0, SpecialExp>> is nan.  Every operation rounds its exact result to    *)
(* the nearest float32, ties to even, with gradual underflow and overflow   *)
(* to inf, and is computed on integers below 2^31.  The sign of a zero is   *)
(* not kept: -0.0 equals 0.0, and the divisors of update_eigen_probe (sums  *)
(* of squares, norms, counts) are never -0.0.  A complex64 value is         *)
(* <<re, im>>, a pair of float32 values.  An intermediate value that is    *)
(* used more than once is a parameter of an operator of its own.           *)

MantBits == 24

MinExp == -149

SpecialExp == 128

\* a binary64 value has DoubleBits significant bits
DoubleBits == 53

F32Zero == <<0, 0>>

F32One == <<1, 0>>

F32Inf == <<1, SpecialExp>>

F32NaN == <<0, SpecialExp>>

F32IsFinite(x) == x[2] # SpecialExp

F32IsNaN(x) == x = F32NaN

\* the number of bits of the natural number k
RECURSIVE BitLength(_)
BitLength(k) ==
    IF k >= 65536 THEN 16 + BitLength(k \div 65536)
    ELSE IF k >= 256 THEN 8 + BitLength(k \div 256)
    ELSE IF k >= 16 THEN 4 + BitLength(k \div 16)
    ELSE IF k = 0 THEN 0 ELSE 1 + BitLength(k \div 2)

\* m * 2^e, m # 0, with the trailing zero bits of m moved to the exponent
RECURSIVE Canon(_, _)
Canon(m, e) ==
    IF m % 256 = 0 THEN Canon(m \div 256, e + 8)
    ELSE IF m % 2 = 0 THEN Canon(m \div 2, e + 1)
    ELSE <<m, e>>

\* sign * kept * 2^q as a float32 value, inf beyond the largest exponent
Pack(sign, kept, q) ==
    IF kept = 0 THEN F32Zero
    ELSE IF BitLength(kept) + q > SpecialExp THEN <<sign, SpecialExp>>
    ELSE Canon(sign * kept, q)

\* mant of len bits shifted right by `shift` bits and rounded to nearest,
\* ties to even; sticky: there are one bits below mant
ShiftRound(mant, len, shift, sticky) ==
    LET whole == mant \div (2 ^ shift)
        rest == mant % (2 ^ shift)
        half == 2 ^ (shift - 1)
    IN  IF shift <= 0 THEN mant * (2 ^ (-shift))
        ELSE IF shift > len THEN 0
        ELSE IF rest > half \/ (rest = half /\ (sticky \/ whole % 2 = 1))
        THEN whole + 1 ELSE whole

\* Round32 of a mant of len bits; q is the exponent of the last bit kept
RoundAt(sign, mant, exp, sticky, len, q) ==
    Pack(sign, ShiftRound(mant, len, q - exp, sticky), q)

\* the float32 nearest to sign * (mant + t) * 2^exp, ties to even, with
\* 0 <= t < 1 and t > 0 exactly when sticky (mant < 2^30, and sticky only
\* with a mant of MantBits + 2 bits or more)
Round32(sign, mant, exp, sticky) ==
    IF mant = 0 THEN F32Zero
    ELSE RoundAt(sign, mant, exp, sticky, BitLength(mant),
                 IF exp + BitLength(mant) - MantBits > MinExp
                 THEN exp + BitLength(mant) - MantBits ELSE MinExp)

\* the float32 value of an integer k, |k| < 2^MantBits
F32FromInt(k) == Round32(Sgn(k), Abs(k), 0, FALSE)

F32Neg(x) == <<-x[1], x[2]>>

F32Abs(x) == <<Abs(x[1]), x[2]>>

\* hi + lo of finite nonzero values, the exponent of hi not below that of
\* lo, |hi[1]| of len bits and dd = hi[2] - lo[2].  lo is aligned below
\* MantBits + 5 bits of hi, what falls below is sticky.
AddAligned(hi, lo, len, dd) ==
    LET g == MantBits + 5 - len
        big == Abs(hi[1]) * (2 ^ g)
        small == IF dd - g <= MantBits THEN Abs(lo[1]) \div (2 ^ (dd - g)) ELSE 0
    IN  IF dd + len <= MantBits + 5
        THEN Round32(Sgn(hi[1] * (2 ^ dd) + lo[1]), Abs(hi[1] * (2 ^ dd) + lo[1]), lo[2],
                     FALSE)
        ELSE Round32(Sgn(hi[1]),
                     IF Sgn(hi[1]) = Sgn(lo[1]) THEN big + small ELSE big - small - 1,
                     hi[2] - g, TRUE)

\* x + y: inf + (-inf) and anything + nan are nan
F32Add(x, y) ==
    IF ~(F32IsFinite(x) /\ F32IsFinite(y))
    THEN IF F32IsNaN(x) \/ F32IsNaN(y) THEN F32NaN
         ELSE IF F32IsFinite(x) THEN y
         ELSE IF F32IsFinite(y) THEN x
         ELSE IF x = y THEN x ELSE F32NaN
    ELSE IF x[1] = 0 THEN y
    ELSE IF y[1] = 0 THEN x
    ELSE AddAligned(IF x[2] < y[2] THEN y ELSE x, IF x[2] < y[2] THEN x ELSE y,
                    BitLength(Abs(IF x[2] < y[2] THEN y[1] ELSE x[1])),
                    Abs(x[2] - y[2]))

F32Sub(x, y) == F32Add(x, F32Neg(y))

\* <<hi, lo>> with hi * 2^MantBits + lo = a * b, for a, b < 2^MantBits, by
\* halves of MantBits / 2 bits
MulParts(a, b) ==
    LET half == 2 ^ (MantBits \div 2)
        a1 == a \div half
        a0 == a % half
        b1 == b \div half
        b0 == b % half
        mid == a1 * b0 + a0 * b1
        low == (mid % half) * half + a0 * b0
    IN  <<a1 * b1 + (mid \div half) + (low \div (2 ^ MantBits)), low % (2 ^ MantBits)>>

\* sign * (parts[1] * 2^MantBits + parts[2]) * 2^exp rounded, the lowest
\* `drop` bits of the product kept as the sticky bit
RoundParts(sign, parts, exp, drop) ==
    Round32(sign, parts[1] * (2 ^ (MantBits - drop)) + (parts[2] \div (2 ^ drop)),
            exp + drop, parts[2] % (2 ^ drop) # 0)

\* the product of the mantissas a of la bits and b of lb bits
MulMant(sign, a, b, exp, la, lb) ==
    IF la + lb <= MantBits + 6 THEN Round32(sign, a * b, exp, FALSE)
    ELSE RoundParts(sign, MulParts(a, b), exp, la + lb - MantBits - 6)

\* x * y: inf * 0 and anything * nan are nan
F32Mul(x, y) ==
    IF ~(F32IsFinite(x) /\ F32IsFinite(y))
    THEN IF F32IsNaN(x) \/ F32IsNaN(y) THEN F32NaN
         ELSE <<Sgn(x[1]) * Sgn(y[1]), SpecialExp>>
    ELSE IF x[1] = 0 \/ y[1] = 0 THEN F32Zero
    ELSE MulMant(Sgn(x[1]) * Sgn(y[1]), Abs(x[1]), Abs(y[1]), x[2] + y[2],
                 BitLength(Abs(x[1])), BitLength(Abs(y[1])))

\* the quotient bits of (q + r / b), up to 6 at a time, until q has
\* MantBits + 2 bits or the division is exact: <<q, r, number of bits
\* added>>, q < 2^30
RECURSIVE DivLoop(_, _, _, _)
DivLoop(q, r, b, k) ==
    IF BitLength(q) >= MantBits + 2 \/ r = 0 THEN <<q, r, k>>
    ELSE LET room == MantBits + 6 - BitLength(q)
             c == IF room < 6 THEN room ELSE 6
             t == r * (2 ^ c)
         IN  DivLoop(q * (2 ^ c) + (t \div b), t % b, b, k + c)

\* sign * (qr[1] + t) * 2^(exp - qr[3]) rounded, for the result qr of
\* DivLoop
RoundQuotient(sign, qr, exp) == Round32(sign, qr[1], exp - qr[3], qr[2] # 0)

\* the quotient of the mantissas a * 2^up and b
DivMant(a, b, up) == DivLoop((a * (2 ^ up)) \div b, (a * (2 ^ up)) % b, b, 0)

\* x / y, no exception: x / 0 is inf, -inf or nan, a finite x / inf is 0,
\* inf / inf and anything with nan are nan
F32Div(x, y) ==
    IF ~(F32IsFinite(x) /\ F32IsFinite(y))
    THEN IF F32IsNaN(x) \/ F32IsNaN(y) THEN F32NaN
         ELSE IF F32IsFinite(x) THEN F32Zero
         ELSE IF F32IsFinite(y) THEN <<x[1] * (IF y[1] < 0 THEN -1 ELSE 1), SpecialExp>>
         ELSE F32NaN
    ELSE IF y[1] = 0 THEN <<Sgn(x[1]), SpecialExp>>
    ELSE IF x[1] = 0 THEN F32Zero
    ELSE RoundQuotient(Sgn(x[1]) * Sgn(y[1]),
                       DivMant(Abs(x[1]), Abs(y[1]), MantBits + 6 - BitLength(Abs(x[1]))),
                       x[2] - y[2] - (MantBits + 6 - BitLength(Abs(x[1]))))

\* the bits 2i + 1 and 2i of the integer a * 2^sh
BitPair(a, sh, i) ==
    LET dd == sh - 2 * i
    IN  IF dd >= 2 \/ dd <= -MantBits THEN 0
        ELSE IF dd >= 0 THEN (a * (2 ^ dd)) % 4
        ELSE (a \div (2 ^ (-dd))) % 4

\* the integer square root of a * 2^sh and its remainder, a pair of bits at
\* a time from pair i down to pair 0
RECURSIVE RootBits(_, _, _, _, _)
RootBits(a, sh, i, root, rem) ==
    IF i < 0 THEN <<root, rem>>
    ELSE LET r4 == 4 * rem + BitPair(a, sh, i)
             trial == 4 * root + 1
         IN  IF r4 >= trial
             THEN RootBits(a, sh, i - 1, 2 * root + 1, r4 - trial)
             ELSE RootBits(a, sh, i - 1, 2 * root, r4)

\* (rt[1] + t) * 2^exp rounded, for the result rt of RootBits
RoundRoot(rt, exp) == Round32(1, rt[1], exp, rt[2] # 0)

\* the root of x[1] * 2^sh * 2^(x[2] - sh), x[2] - sh even
RootShifted(x, sh) ==
    RoundRoot(RootBits(x[1], sh, MantBits + 1, 0, 0), (x[2] - sh) \div 2)

\* np.sqrt(x): nan for x < 0; MantBits + 2 bits of the root of m * 2^sh
\* with e - sh even, rounded
F32Sqrt(x) ==
    IF F32IsNaN(x) \/ x[1] < 0 THEN F32NaN
    ELSE IF ~F32IsFinite(x) THEN x
    ELSE IF x[1] = 0 THEN F32Zero
    ELSE RootShifted(x, LET full == 2 * MantBits + 4 - BitLength(x[1])
                        IN  IF (x[2] - full) % 2 = 0 THEN full ELSE full - 1)

\* x >= y, false when either is nan
F32Geq(x, y) ==
    IF F32IsNaN(x) \/ F32IsNaN(y) THEN FALSE
    ELSE IF x = y THEN TRUE
    ELSE IF ~F32IsFinite(x) THEN x[1] > 0
    ELSE IF ~F32IsFinite(y) THEN y[1] < 0
    ELSE F32Sub(x, y)[1] > 0

\* np.sum of a float32 array along one axis, in index order (what NumPy
\* does along an axis of fewer than 8 elements): f[0] + ... + f[k]
RECURSIVE F32SumTo(_, _)
F32SumTo(f, k) == IF k = 0 THEN f[0] ELSE F32Add(F32SumTo(f, k - 1), f[k])

\* np.mean of a float32 array along one axis: the sum divided by the count
F32Mean(f) ==
    F32Div(F32SumTo(f, Cardinality(DOMAIN f) - 1), F32FromInt(Cardinality(DOMAIN f)))

\* complex64: a + b, a * b and a.conj() of NumPy
C64Add(a, b) == <<F32Add(a[1], b[1]), F32Add(a[2], b[2])>>

C64Mul(a, b) ==
    <<F32Sub(F32Mul(a[1], b[1]), F32Mul(a[2], b[2])),
      F32Add(F32Mul(a[1], b[2]), F32Mul(a[2], b[1]))>>

C64Conj(a) == <<a[1], F32Neg(a[2])>>

\* a float32 value cast to complex64
C64FromReal(x) == <<x, F32Zero>>

\* the two parts of a / b from the ratio rat of the parts of b and the
\* reciprocal scl of the scaled divisor; real: |b.real| >= |b.imag|
DivOut(a, rat, scl, real) ==
    IF real
    THEN <<F32Mul(F32Add(a[1], F32Mul(a[2], rat)), scl),
           F32Mul(F32Sub(a[2], F32Mul(a[1], rat)), scl)>>
    ELSE <<F32Mul(F32Add(F32Mul(a[1], rat), a[2]), scl),
           F32Mul(F32Sub(F32Mul(a[2], rat), a[1]), scl)>>

\* a / b with the part `big` of b of the larger magnitude and the part
\* `small` of the smaller
DivScaled(a, big, small, rat, real) ==
    DivOut(a, rat, F32Div(F32One, F32Add(big, F32Mul(small, rat))), real)

DivRatio(a, big, small, real) == DivScaled(a, big, small, F32Div(small, big), real)

\* a / b of complex64 values, the scaled division of NumPy's loop
C64Div(a, b) ==
    IF b[1] = F32Zero /\ b[2] = F32Zero
    THEN <<F32Div(a[1], F32Zero), F32Div(a[2], F32Zero)>>
    ELSE IF F32Geq(F32Abs(b[1]), F32Abs(b[2])) THEN DivRatio(a, b[1], b[2], TRUE)
    ELSE DivRatio(a, b[2], b[1], FALSE)

RECURSIVE C64SumTo(_, _)
C64SumTo(f, k) == IF k = 0 THEN f[0] ELSE C64Add(C64SumTo(f, k - 1), f[k])

\* `steps` digits of 6 bits of the quotient rem / den, for rem < den < 2^23:
\* <<acc * 64^steps + the digits, the remainder>>
RECURSIVE DivDigits(_, _, _, _)
DivDigits(rem, den, steps, acc) ==
    IF steps = 0 THEN <<acc, rem>>
    ELSE DivDigits((rem * 64) % den, den, steps - 1, acc * 64 + ((rem * 64) \div den))

\* the limbs of ReciprocalLimbs from the quotient digits d1 and d0, the
\* last of them rounded
ReciprocalRound(den, top, d1, d0) ==
    LET base == 2 ^ MantBits
        r0 == IF 2 * d0[2] > den THEN d0[1] + 1 ELSE d0[1]
        r1 == IF r0 = base THEN d1[1] + 1 ELSE d1[1]
    IN  <<r0 % base, r1 % base, (top \div den) + (IF r1 = base THEN 1 ELSE 0)>>

ReciprocalLow(den, top, d1) == ReciprocalRound(den, top, d1, DivDigits(d1[2], den, 4, 0))

ReciprocalOf(den, top) == ReciprocalLow(den, top, DivDigits(top % den, den, 4, 0))

\* float64(1 / den) for an integer den that is no power of two: the DoubleBits
\* bits of 2^(DoubleBits + k) / den, 2^k < den, rounded to nearest, as three
\* limbs of MantBits bits, the lowest first
ReciprocalLimbs(den) ==
    ReciprocalOf(den, 2 ^ (DoubleBits - 2 * MantBits + BitLength(den) - 1))

\* the limbs of m * r from the products p0 and p1 of m and the two low
\* limbs of r
SumLimbs(m, r, p0, p1) ==
    LET base == 2 ^ MantBits
        t2 == m * r[3]
        s1 == p0[1] + p1[2]
        s2 == p1[1] + (t2 % base) + (s1 \div base)
    IN  <<p0[2], s1 % base, s2 % base, (t2 \div base) + (s2 \div base)>>

\* m * r, exact, for m < 2^MantBits and r of three limbs: four limbs
TimesLimbs(m, r) == SumLimbs(m, r, MulParts(m, r[1]), MulParts(m, r[2]))

\* bit i of the number of the limbs q
LimbBit(q, i) ==
    IF i < 0 \/ i >= MantBits * Len(q) THEN 0
    ELSE (q[(i \div MantBits) + 1] \div (2 ^ (i % MantBits))) % 2

\* the integer of the bits lo .. lo + i of the number of the limbs q
RECURSIVE LimbInt(_, _, _)
LimbInt(q, lo, i) ==
    IF i < 0 THEN 0 ELSE LimbBit(q, lo + i) * (2 ^ i) + LimbInt(q, lo, i - 1)

\* the bit length of the number of the limbs q[1 .. k]
RECURSIVE LimbLength(_, _)
LimbLength(q, k) ==
    IF k = 0 THEN 0
    ELSE IF q[k] # 0 THEN MantBits * (k - 1) + BitLength(q[k])
    ELSE LimbLength(q, k - 1)

\* whether the product, cut `drop` bits from the right, rounds up
RoundsUp(product, drop) ==
    /\ drop >= 1
    /\ LimbBit(product, drop - 1) = 1
    /\ (LimbBit(product, drop) = 1 \/ LimbInt(product, 0, drop - 2) # 0)

\* the DoubleBits bits high * 2^MantBits + low of a binary64 value, rounded
\* to float32
NarrowDouble(sign, high, low, exp) ==
    Round32(sign, high + (low \div (2 ^ MantBits)), exp, low % (2 ^ MantBits) # 0)

\* the exact product rounded to DoubleBits bits, ties to even, and these to
\* float32: `high` are the leading MantBits + 5 of them, `low` the rest
CastProduct(sign, product, drop, exp) ==
    NarrowDouble(sign, LimbInt(product, drop + MantBits, MantBits + 4),
                 LimbInt(product, drop, MantBits - 1)
                    + (IF RoundsUp(product, drop) THEN 1 ELSE 0),
                 exp + drop + MantBits)

RoundProduct(sign, product, exp) ==
    CastProduct(sign, product, LimbLength(product, 4) - DoubleBits, exp)

\* float32(float64(x * float64(1 / count))): the division by the count of
\* np.mean when it is carried out in binary64 and the result cast back
F32DivCountDouble(x, count) ==
    IF ~F32IsFinite(x) \/ x[1] = 0 THEN x
    ELSE IF count = 2 ^ (BitLength(count) - 1) THEN F32Div(x, F32FromInt(count))
    ELSE RoundProduct(Sgn(x[1]), TimesLimbs(Abs(x[1]), ReciprocalLimbs(count)),
                      x[2] - (DoubleBits + BitLength(count) - 1))

\* the complex64 sum s of np.mean divided by the count.  With value-based
\* casting (NumPy 1) the count is cast to complex64 and the sum divided by
\* it in complex64.  With NEP 50 (NumPy 2) the count is an int64 scalar, the
\* division is the complex128 loop (re + im * 0.0) * (1 / count),
\* (im - re * 0.0) * (1 / count), and the result is cast to complex64.
C64DivCount(s, count, nep50) ==
    IF nep50
    THEN <<IF F32IsFinite(s[2]) THEN F32DivCountDouble(s[1], count) ELSE F32NaN,
           IF F32IsFinite(s[1]) THEN F32DivCountDouble(s[2], count) ELSE F32NaN>>
    ELSE C64Div(s, C64FromReal(F32FromInt(count)))

\* np.mean of a complex64 array along one axis (lines 223-227): the
\* complex64 sum divided by the count, as the NumPy the program runs on
\* divides it
C64Mean(f, nep50) ==
    C64DivCount(C64SumTo(f, Cardinality(DOMAIN f) - 1), Cardinality(DOMAIN f), nep50)

\* a + b of two numbers of as many limbs, from limb k up with a carry
RECURSIVE LimbAdd(_, _, _, _)
LimbAdd(a, b, k, carry) ==
    IF k > Len(a) THEN <<>>
    ELSE <<(a[k] + b[k] + carry) % (2 ^ MantBits)>>
            \o LimbAdd(a, b, k + 1, (a[k] + b[k] + carry) \div (2 ^ MantBits))

\* the root of the integer of the bits of the limbs q from position base
\* up, a pair of bits at a time from pair i down to pair 0, and its
\* remainder
RECURSIVE RootOfLimbs(_, _, _, _, _)
RootOfLimbs(q, base, i, root, rem) ==
    IF i < 0 THEN <<root, rem>>
    ELSE LET r4 == 4 * rem + 2 * LimbBit(q, base + 2 * i + 1) + LimbBit(q, base + 2 * i)
             trial == 4 * root + 1
         IN  IF r4 >= trial
             THEN RootOfLimbs(q, base, i - 1, 2 * root + 1, r4 - trial)
             ELSE RootOfLimbs(q, base, i - 1, 2 * root, r4)

\* the root rt of the bits of S from position base up, rounded; the bits
\* of S below base are sticky
HypotRound(S, base, rt, exp) ==
    Round32(1, rt[1], exp + (base \div 2),
            rt[2] # 0 \/ \E i \in 0 .. (base - 1) : LimbBit(S, i) = 1)

HypotRoot(S, base, exp) ==
    HypotRound(S, base, RootOfLimbs(S, base, MantBits + 1, 0, 0), exp)

\* the root of the seven limbs S: 2 * MantBits + 4 leading bits of S, from
\* an even position, go into the root
HypotLimbs(S, full, exp) == HypotRoot(S, IF full % 2 = 0 THEN full ELSE full + 1, exp)

HypotSum(S, exp) == HypotLimbs(S, LimbLength(S, 7) - (2 * MantBits + 4), exp)

\* the squares ph and pl of the mantissas, ph shifted left by 2 * dd bits,
\* added exactly on seven limbs
HypotSquares(ph, pl, dd, exp) ==
    HypotSum(LimbAdd([j \in 1 .. 7 |->
                        LimbInt(<<ph[2], ph[1]>>, MantBits * (j - 1) - 2 * dd,
                                MantBits - 1)],
                     <<pl[2], pl[1], 0, 0, 0, 0, 0>>, 1, 0), exp)

\* hypot of two finite nonzero values, the exponent of hi not below that
\* of lo
HypotOrdered(hi, lo) ==
    HypotSquares(MulParts(Abs(hi[1]), Abs(hi[1])), MulParts(Abs(lo[1]), Abs(lo[1])),
                 hi[2] - lo[2], lo[2])

\* hypot of two finite nonzero values with the top bits at tx and ty
HypotNear(x, y, tx, ty) ==
    IF tx - ty >= MantBits + 2 THEN F32Abs(x)
    ELSE IF ty - tx >= MantBits + 2 THEN F32Abs(y)
    ELSE HypotOrdered(IF x[2] >= y[2] THEN x ELSE y, IF x[2] >= y[2] THEN y ELSE x)

\* np.abs of the complex64 value (x, y): hypot(x, y), the correctly rounded
\* root of the exact x^2 + y^2; inf when either part is inf or -inf.  A
\* part more than MantBits + 2 binary places below the other does not
\* change the rounded root; otherwise the two squares are added exactly on
\* seven limbs, in units of the square of the smaller exponent.
F32Hypot(x, y) ==
    IF (~F32IsFinite(x) /\ ~F32IsNaN(x)) \/ (~F32IsFinite(y) /\ ~F32IsNaN(y)) THEN F32Inf
    ELSE IF F32IsNaN(x) \/ F32IsNaN(y) THEN F32NaN
    ELSE IF y[1] = 0 THEN F32Abs(x)
    ELSE IF x[1] = 0 THEN F32Abs(y)
    ELSE HypotNear(x, y, x[2] + BitLength(Abs(x[1])), y[2] + BitLength(Abs(y[1])))
-----------------------------------------------------------------------------
(* update_eigen_probe: index sets and inputs.  R, patches, diff and         *)
(* eigen_probe are complex64, weights are float32.                         *)

Workers(nw) == 0 .. (nw - 1)
Views(nv) == 0 .. (nv - 1)
Positions == 0 .. (NumPos - 1)
EigenModes == 0 .. (Eigen - 1)
WeightRows == 0 .. Eigen
Probes == 0 .. (Shared - 1)

None == <<>>

\* float32(0.1): the Python float 0.1 as an operand of a float32 or
\* complex64 array
Tenth == <<13421773, -27>>

\* the relaxation constant, default of the parameter β, times a complex64
\* array
Beta == C64FromReal(Tenth)

\* the complex64 value re + im j of two small integers
C64(re, im) == <<F32FromInt(re), F32FromInt(im)>>

\* Whether the weights of (worker w, view v) are all zero for the rows >= 1
ZeroCell(seed, w, v) ==
    CASE seed = 1 -> TRUE
      [] seed = 2 -> w = 0
      [] seed = 3 -> w = 0 /\ v = 0
      [] seed = 4 -> v = 1
      [] seed = 5 -> w = 1 /\ v = 0
      [] OTHER -> FALSE

WeightIn(seed, w, v, p, e, s) ==
    IF e = 0 THEN F32One
    ELSE IF ZeroCell(seed, w, v) THEN F32Zero
    ELSE IF seed = 6
    THEN (IF p = 0 THEN F32FromInt(2 ^ w) ELSE IF p = 1 THEN F32FromInt(-(2 ^ w))
          ELSE F32Zero)
    ELSE F32FromInt(((p + e + s + w) % 3) - 1)

RIn(ds, w, v, p) ==
    CASE ds = 0 -> C64(1 + ((w + p) % 2), 0)
      [] ds = 1 -> C64((((w + 2 * v + p) % 3) + 1) * (IF (w + p) % 2 = 0 THEN 1 ELSE -1), 0)
      [] ds = 2 -> IF v = 0 THEN C64(0, 0) ELSE C64(1 + w, 0)
      [] OTHER -> C64(1 + p, w - p)

PatchIn(ds, w, v, p) ==
    CASE ds = 0 -> C64(1 + p, 0)
      [] ds = 1 -> C64(((w + p) % 2) + 1 + w, 0)
      [] ds = 2 -> IF v = 0 THEN C64(1, 0) ELSE C64(0, 0)
      [] OTHER -> C64(2 - p, 1 + v)

DiffIn(ds, w, v, p) ==
    CASE ds = 0 -> C64(1, 0)
      [] ds = 1 -> C64(p - w, 0)
      [] ds = 2 -> C64(2, 0)
      [] OTHER -> C64(1, p - 1)

\* equal = TRUE: every worker holds the same replica of eigen_probe
EigenIn(ds, equal, w, v, e, s) ==
    LET k == IF equal THEN 0 ELSE w
    IN  CASE ds = 0 -> C64(IF (v + e + s + k) % 2 = 0 THEN 1 ELSE -1, 0)
          [] ds = 1 -> C64(((v + e + s + k) % 3) * (IF e = 0 THEN 1 ELSE -1), 0)
          [] ds = 2 -> IF (e + s) % 2 = 0 THEN C64(IF k = 0 THEN 1 ELSE -1, 0)
                       ELSE C64FromReal(<<(IF k = 0 THEN 1 ELSE -1) * Tenth[1], Tenth[2] - 1>>)
          [] OTHER -> C64(1 + e, s - k)

-----------------------------------------------------------------------------
(* update_eigen_probe: the three mapped functions, on one worker's arrays *)

\* weights[..., c:c + 1, m:m + 1, None, None]
SelWeights(weights_w, c, m) ==
    [v \in DOMAIN weights_w |-> [p \in DOMAIN weights_w[v] |-> weights_w[v][p][c][m]]]

\* eigen_probe[..., c - 1:c, m:m + 1, :, :]
SelEigen(eigen_w, c, m) == [v \in DOMAIN eigen_w |-> eigen_w[v][c - 1][m]]

\* np.linalg.norm(weights, axis=-5, keepdims=True)**2 of float32 weights:
\* the squares, their sum over the positions, its square root and the
\* square of the root, each rounded to float32
norm_weights(wsel) ==
    [v \in DOMAIN wsel |->
        LET squares == [p \in DOMAIN wsel[v] |-> F32Mul(wsel[v][p], wsel[v][p])]
            root == F32Sqrt(F32SumTo(squares, Cardinality(DOMAIN squares) - 1))
        IN  F32Mul(root, root)]

\* mutant: the guard of lines 218-219 is missing
GetUpdateRaises_NoGuard(weights_w, c, m) == FALSE

\* if np.all(norm_weights == 0): raise ValueError
GetUpdateRaises(weights_w, c, m) ==
    \A v \in DOMAIN weights_w : norm_weights(SelWeights(weights_w, c, m))[v] = F32Zero

\* the value _get_update returns when it does not raise (lines 220-227):
\* proj is float32, its mean over the one pixel is the pixel, and R * mean
\* is the complex64 product with the mean cast to complex64
get_update(R_w, eigen_w, weights_w, c, m, nep50) ==
    LET wsel == SelWeights(weights_w, c, m)
        esel == SelEigen(eigen_w, c, m)
        nrm == norm_weights(wsel)
        proj == [v \in DOMAIN R_w |-> [p \in DOMAIN R_w[v] |->
                    F32Div(F32Add(C64Mul(C64Conj(R_w[v][p]), esel[v])[1], wsel[v][p]),
                           nrm[v])]]
    IN  [v \in DOMAIN R_w |->
            C64Mean([p \in DOMAIN R_w[v] |->
                        C64Mul(R_w[v][p], C64FromReal(proj[v][p]))], nep50)]

\* tike.linalg.mnorm over the pixel axes, of a one-pixel complex64 array:
\* np.sqrt(np.mean((x * x.conj()).real)), a float32
mnorm_complex64(x) == F32Sqrt(C64Mul(x, C64Conj(x))[1])

\* _get_d, first part: the eigen probe after the two in-place statements
get_d_eigen(eigen_w, update_w, beta, c, m) ==
    [v \in DOMAIN eigen_w |->
        LET step == C64Div(C64Mul(beta, update_w[v]),
                           C64FromReal(mnorm_complex64(update_w[v])))
            stepped == C64Add(eigen_w[v][c - 1][m], step)
            normed == C64Div(stepped, C64FromReal(mnorm_complex64(stepped)))
        IN  [eigen_w[v] EXCEPT ![c - 1] = [@ EXCEPT ![m] = normed]]]

\* assert np.all(np.isfinite(eigen_probe))
AllFiniteEigen(eigen_w) ==
    \A v \in DOMAIN eigen_w : \A e \in DOMAIN eigen_w[v] :
        \A s \in DOMAIN eigen_w[v][e] :
            F32IsFinite(eigen_w[v][e][s][1]) /\ F32IsFinite(eigen_w[v][e][s][2])

\* phi = patches * eigen_probe[..., c - 1:c, m:m + 1, :, :]
get_d_phi(patches_w, eigen_w, c, m) ==
    [v \in DOMAIN patches_w |-> [p \in DOMAIN patches_w[v] |->
        C64Mul(patches_w[v][p], eigen_w[v][c - 1][m])]]

\* n = np.mean(np.real(diff * phi.conj()), axis=(-1, -2))
get_d_n(diff_w, phi) ==
    [v \in DOMAIN phi |-> [p \in DOMAIN phi[v] |->
        C64Mul(diff_w[v][p], C64Conj(phi[v][p]))[1]]]

\* d = np.mean(np.square(np.abs(phi)), axis=(-1, -2))
get_d_d(phi) ==
    [v \in DOMAIN phi |-> [p \in DOMAIN phi[v] |->
        LET modulus == F32Hypot(phi[v][p][1], phi[v][p][2])
        IN  F32Mul(modulus, modulus)]]

\* d_mean = np.mean(d, axis=-3, keepdims=True)
get_d_mean(d_w) == [v \in DOMAIN d_w |-> F32Mean(d_w[v])]

\* d += 0.1 * d_mean
get_weights_d(d_w, d_mean_w) ==
    [v \in DOMAIN d_w |-> [p \in DOMAIN d_w[v] |->
        F32Add(d_w[v][p], F32Mul(Tenth, d_mean_w[v]))]]

\* weight_update = (n / d).reshape(...)
weight_update(n_w, d_w) ==
    [v \in DOMAIN n_w |-> [p \in DOMAIN n_w[v] |-> F32Div(n_w[v][p], d_w[v][p])]]

\* assert np.all(np.isfinite(weight_update))
AllFiniteUpdate(wu) == \A v \in DOMAIN wu : \A p \in DOMAIN wu[v] : F32IsFinite(wu[v][p])

\* weights[..., c:c + 1, :] += weight_update: every probe of row c
get_weights_mean_AllProbes(weights_w, wu, c, m) ==
    [v \in DOMAIN weights_w |-> [p \in DOMAIN weights_w[v] |->
        [weights_w[v][p] EXCEPT ![c] = [s \in DOMAIN @ |-> F32Add(@[s], wu[v][p])]]]]

\* weights[..., c:c + 1, m:m + 1] += weight_update
get_weights_mean(weights_w, wu, c, m) ==
    [v \in DOMAIN weights_w |-> [p \in DOMAIN weights_w[v] |->
        [weights_w[v][p] EXCEPT ![c] = [@ EXCEPT ![m] = F32Add(@, wu[v][p])]]]]

\* pool.reduce_mean(xs, axis) on the arrays of update_eigen_probe:
\* element-wise np.mean over the workers, of complex64 (update) or float32
\* (d_mean) arrays
reduce_mean_typed(xs, dtype, nep50) ==
    LET w0 == CHOOSE w \in DOMAIN xs : TRUE
    IN  [i \in DOMAIN xs[w0] |->
            IF dtype = "complex64" THEN C64Mean([w \in DOMAIN xs |-> xs[w][i]], nep50)
            ELSE F32Mean([w \in DOMAIN xs |-> xs[w][i]])]

\* src + remote[1] + ... + remote[k], element i
RECURSIVE TypedSumTo(_, _, _, _, _)
TypedSumTo(src, remote, i, k, dtype) ==
    IF k = 0 THEN src[i]
    ELSE IF dtype = "complex64"
    THEN C64Add(TypedSumTo(src, remote, i, k - 1, dtype), remote[k][i])
    ELSE F32Add(TypedSumTo(src, remote, i, k - 1, dtype), remote[k][i])

\* comm.Allreduce_mean(xs, axis) on the arrays of update_eigen_probe: the
\* per-node reduce_mean, the cross-node sum in rank order, divided by
\* mpi.size (an array divided by a Python int)
Allreduce_mean_typed(xs, remote, dtype, nep50) ==
    LET src == reduce_mean_typed(xs, dtype, nep50)
        size == F32FromInt(Len(remote) + 1)
    IN  [i \in DOMAIN src |->
            LET tot == TypedSumTo(src, remote, i, Len(remote), dtype)
            IN  IF dtype = "complex64" THEN C64Div(tot, C64FromReal(size))
                ELSE F32Div(tot, size)]

-----------------------------------------------------------------------------
(* update_eigen_probe: the call as a state machine.                        *)
(* ep.pc is the statement the calling thread is at; ep.task[w] is the      *)
(* state of worker w's task of the pool.map in progress (ep.job).          *)

\* the (c, m) pairs a call is made with
ModePairs == {<<1, 0>>, <<Eigen, Shared - 1>>}

\* what the other nodes contribute to a cross-node collective
RemoteVals(dtype) ==
    IF dtype = "complex64" THEN {C64(0, 0), C64(1, 0)} ELSE {F32Zero, F32One}

Remotes(nodes, nv, dtype) ==
    {[k \in 1 .. (nodes - 1) |-> [v \in Views(nv) |-> f[k]]] :
        f \in [1 .. (nodes - 1) -> RemoteVals(dtype)]}

W == IF ep.pc = "idle" THEN {} ELSE Workers(ep.nw)

Launch(job) == [w \in W |-> "running"]

AllDone == \A w \in W : ep.task[w] = "done"

\* executor.map hands the results back in worker order: the first task that
\* raised is seen once every task before it has returned
FirstRaised(w) == ep.task[w] = "raised" /\ \A x \in W : x < w => ep.task[x] = "done"

\* the components that take no part in a specification stay idle
IdleEigen ==
    /\ ep = [pc |-> "idle"]
    /\ R = None /\ patches = None /\ diff = None /\ eigen_probe = None
    /\ weights = None /\ update = None /\ n = None /\ d = None /\ d_mean = None

IdlePtycho == pt = [pc |-> "idle"]

IdleComm == cm = [pc |-> "idle"]

IdleDivided == dv = [pc |-> "idle"]

IdlePatch == pa = [pc |-> "idle"]

IdleCost == co = [pc |-> "idle"]

IdleConstrain == cs = [pc |-> "idle"]

IdleVarying == vp = [pc |-> "idle"]

IdleBlocks == kb = [pc |-> "idle"]

IdleOperators == IdlePatch /\ IdleCost /\ IdleConstrain /\ IdleVarying /\ IdleBlocks

InitEigen ==
    /\ IdlePtycho /\ IdleComm /\ IdleDivided /\ IdleOperators
    /\ \E seed \in 0 .. (NumSeeds - 1), ds \in 0 .. (NumDataSeeds - 1), equal \in BOOLEAN,
       nw \in 1 .. MaxWorkers, nv \in 1 .. MaxViews, nodes \in 1 .. MaxNodes,
       use_mpi \in BOOLEAN, pair \in ModePairs, nep50 \in BOOLEAN :
        /\ R = [w \in Workers(nw) |-> [v \in Views(nv) |-> [p \in Positions |->
                    RIn(ds, w, v, p)]]]
        /\ patches = [w \in Workers(nw) |-> [v \in Views(nv) |-> [p \in Positions |->
                    PatchIn(ds, w, v, p)]]]
        /\ diff = [w \in Workers(nw) |-> [v \in Views(nv) |-> [p \in Positions |->
                    DiffIn(ds, w, v, p)]]]
        /\ eigen_probe = [w \in Workers(nw) |-> [v \in Views(nv) |->
                    [e \in EigenModes |-> [s \in Probes |-> EigenIn(ds, equal, w, v, e, s)]]]]
        /\ weights = [w \in Workers(nw) |-> [v \in Views(nv) |-> [p \in Positions |->
                    [e \in WeightRows |-> [s \in Probes |-> WeightIn(seed, w, v, p, e, s)]]]]]
        /\ update = [w \in Workers(nw) |-> None]
        /\ n = [w \in Workers(nw) |-> None]
        /\ d = [w \in Workers(nw) |-> None]
        /\ d_mean = [w \in Workers(nw) |-> None]
        /\ ep = [pc |-> "map_update", job |-> "_get_update",
                 task |-> [w \in Workers(nw) |-> "running"],
                 exc |-> "none", nw |-> nw, nv |-> nv, nodes |-> nodes,
                 use_mpi |-> use_mpi, c |-> pair[1], m |-> pair[2],
                 mpi_calls |-> 0, remote |-> <<>>, nep50 |-> nep50,
                 entry_eigen |-> [w \in Workers(nw) |-> [v \in Views(nv) |->
                    [e \in EigenModes |-> [s \in Probes |-> EigenIn(ds, equal, w, v, e, s)]]]],
                 entry_weights |-> [w \in Workers(nw) |-> [v \in Views(nv) |->
                    [p \in Positions |-> [e \in WeightRows |-> [s \in Probes |->
                        WeightIn(seed, w, v, p, e, s)]]]]]]

\* worker w runs _get_update (lines 212-227)
TaskGetUpdate(w) ==
    /\ ep.pc # "idle" /\ ep.job = "_get_update" /\ ep.task[w] = "running"
    /\ IF GetUpdateRaises(weights[w], ep.c, ep.m)
       THEN /\ ep' = [ep EXCEPT !.task[w] = "raised"]
            /\ UNCHANGED update
       ELSE /\ ep' = [ep EXCEPT !.task[w] = "done"]
            /\ update' = [update EXCEPT ![w] =
                    get_update(R[w], eigen_probe[w], weights[w], ep.c, ep.m, ep.nep50)]
    /\ UNCHANGED <<R, patches, diff, eigen_probe, weights, n, d, d_mean, pt, cm, dv, pa, co, cs, vp, kb>>

\* mutant: the mean is stored in the first entry and never broadcast
ReduceLocal_NoBcast(xs, workers, dtype, nep50) ==
    [xs EXCEPT ![0] = reduce_mean_typed(xs, dtype, nep50)]

\* mutant: the first worker's value is broadcast without the reduction
ReduceLocal_NoReduce(xs, workers, dtype, nep50) == bcast(xs[0], workers)

\* lines 242-245 and 288-291: pool.bcast([pool.reduce_mean(xs, axis)])
ReduceLocal(xs, workers, dtype, nep50) == bcast(reduce_mean_typed(xs, dtype, nep50), workers)

\* lines 236-239 and 282-285: xs[0] = comm.Allreduce_mean(xs, axis)
ReduceAll(xs, remote, dtype, nep50) ==
    [xs EXCEPT ![0] = Allreduce_mean_typed(xs, remote, dtype, nep50)]

\* lines 240 and 286: xs = comm.pool.bcast([xs[0]])
BcastFirst(xs, workers) == bcast(xs[0], workers)

\* mutant: the weights are updated before the eigen probe
NextJob_Swapped(job) == IF job = "_get_update" THEN "_get_weights_mean" ELSE "_get_d"

\* the order of the three pool.map calls (lines 229, 272, 303)
NextJob(job) == IF job = "_get_update" THEN "_get_d" ELSE "_get_weights_mean"

PcOf(job) == IF job = "_get_d" THEN "map_d" ELSE "map_weights"

\* lines 229-245, not use_mpi: the map has returned; reduce, broadcast, and
\* start the map of _get_d (line 272)
ReduceUpdate ==
    /\ ep.pc = "map_update" /\ AllDone /\ ~ep.use_mpi
    /\ update' = ReduceLocal(update, W, "complex64", ep.nep50)
    /\ ep' = [ep EXCEPT !.pc = PcOf(NextJob(ep.job)), !.job = NextJob(ep.job),
                         !.task = Launch(NextJob(ep.job))]
    /\ UNCHANGED <<R, patches, diff, eigen_probe, weights, n, d, d_mean, pt, cm, dv, pa, co, cs, vp, kb>>

\* lines 235-239, use_mpi
AllreduceUpdate ==
    /\ ep.pc = "map_update" /\ AllDone /\ ep.use_mpi
    /\ \E remote \in Remotes(ep.nodes, ep.nv, "complex64") :
        /\ update' = ReduceAll(update, remote, "complex64", ep.nep50)
        /\ ep' = [ep EXCEPT !.pc = "bcast_update", !.mpi_calls = @ + 1,
                             !.remote = Append(@, remote)]
    /\ UNCHANGED <<R, patches, diff, eigen_probe, weights, n, d, d_mean, pt, cm, dv, pa, co, cs, vp, kb>>

\* line 240, then the map of _get_d starts (line 272)
BcastUpdate ==
    /\ ep.pc = "bcast_update"
    /\ update' = BcastFirst(update, W)
    /\ ep' = [ep EXCEPT !.pc = PcOf(NextJob(ep.job)), !.job = NextJob(ep.job),
                         !.task = Launch(NextJob(ep.job))]
    /\ UNCHANGED <<R, patches, diff, eigen_probe, weights, n, d, d_mean, pt, cm, dv, pa, co, cs, vp, kb>>

\* worker w runs _get_d (lines 247-270): the eigen probe is updated in place
\* before the assertion is evaluated
TaskGetD(w) ==
    /\ ep.pc # "idle" /\ ep.job = "_get_d" /\ ep.task[w] = "running"
    /\ LET e1 == get_d_eigen(eigen_probe[w], update[w], Beta, ep.c, ep.m)
           phi == get_d_phi(patches[w], e1, ep.c, ep.m)
       IN  /\ eigen_probe' = [eigen_probe EXCEPT ![w] = e1]
           /\ IF AllFiniteEigen(e1)
              THEN /\ n' = [n EXCEPT ![w] = get_d_n(diff[w], phi)]
                   /\ d' = [d EXCEPT ![w] = get_d_d(phi)]
                   /\ d_mean' = [d_mean EXCEPT ![w] = get_d_mean(get_d_d(phi))]
                   /\ ep' = [ep EXCEPT !.task[w] = "done"]
              ELSE /\ ep' = [ep EXCEPT !.task[w] = "raised"]
                   /\ UNCHANGED <<n, d, d_mean>>
    /\ UNCHANGED <<R, patches, diff, weights, update, pt, cm, dv, pa, co, cs, vp, kb>>

\* lines 272-291, not use_mpi, then the map of _get_weights_mean starts
ReduceD ==
    /\ ep.pc = "map_d" /\ AllDone /\ ~ep.use_mpi
    /\ d_mean' = ReduceLocal(d_mean, W, "float32", ep.nep50)
    /\ ep' = [ep EXCEPT !.pc = PcOf(NextJob(ep.job)), !.job = NextJob(ep.job),
                         !.task = Launch(NextJob(ep.job))]
    /\ UNCHANGED <<R, patches, diff, eigen_probe, weights, update, n, d, pt, cm, dv, pa, co, cs, vp, kb>>

\* lines 281-285, use_mpi
AllreduceD ==
    /\ ep.pc = "map_d" /\ AllDone /\ ep.use_mpi
    /\ \E remote \in Remotes(ep.nodes, ep.nv, "float32") :
        /\ d_mean' = ReduceAll(d_mean, remote, "float32", ep.nep50)
        /\ ep' = [ep EXCEPT !.pc = "bcast_d", !.mpi_calls = @ + 1,
                             !.remote = Append(@, remote)]
    /\ UNCHANGED <<R, patches, diff, eigen_probe, weights, update, n, d, pt, cm, dv, pa, co, cs, vp, kb>>

\* line 286, then the map of _get_weights_mean starts (line 303)
BcastD ==
    /\ ep.pc = "bcast_d"
    /\ d_mean' = BcastFirst(d_mean, W)
    /\ ep' = [ep EXCEPT !.pc = PcOf(NextJob(ep.job)), !.job = NextJob(ep.job),
                         !.task = Launch(NextJob(ep.job))]
    /\ UNCHANGED <<R, patches, diff, eigen_probe, weights, update, n, d, pt, cm, dv, pa, co, cs, vp, kb>>

\* worker w runs _get_weights_mean (lines 293-301): d is updated in place,
\* weights only when the assertion holds
TaskGetWeightsMean(w) ==
    /\ ep.pc # "idle" /\ ep.job = "_get_weights_mean" /\ ep.task[w] = "running"
    /\ LET d1 == get_weights_d(d[w], d_mean[w])
           wu == weight_update(n[w], d1)
       IN  /\ d' = [d EXCEPT ![w] = d1]
           /\ IF AllFiniteUpdate(wu)
              THEN /\ weights' = [weights EXCEPT ![w] =
                            get_weights_mean(weights[w], wu, ep.c, ep.m)]
                   /\ ep' = [ep EXCEPT !.task[w] = "done"]
              ELSE /\ ep' = [ep EXCEPT !.task[w] = "raised"]
                   /\ UNCHANGED weights
    /\ UNCHANGED <<R, patches, diff, eigen_probe, update, n, d_mean, pt, cm, dv, pa, co, cs, vp, kb>>

\* line 311: return eigen_probe, weights
Return ==
    /\ ep.pc = "map_weights" /\ AllDone
    /\ ep' = [ep EXCEPT !.pc = "returned"]
    /\ UNCHANGED <<R, patches, diff, eigen_probe, weights, update, n, d, d_mean, pt, cm, dv, pa, co, cs, vp, kb>>

\* the exception of a task leaves update_eigen_probe as a ValueError,
\* whichever mapped function raised it
Raise_AlwaysValueError ==
    /\ ep.pc \in {"map_update", "map_d", "map_weights"}
    /\ \E w \in W : FirstRaised(w)
    /\ ep' = [ep EXCEPT !.pc = "raised", !.exc = "ValueError"]
    /\ UNCHANGED <<R, patches, diff, eigen_probe, weights, update, n, d, d_mean, pt, cm, dv, pa, co, cs, vp, kb>>

\* the exception of a task leaves update_eigen_probe through pool.map
Raise ==
    /\ ep.pc \in {"map_update", "map_d", "map_weights"}
    /\ \E w \in W : FirstRaised(w)
    /\ ep' = [ep EXCEPT !.pc = "raised",
                         !.exc = IF ep.job = "_get_update" THEN "ValueError"
                                 ELSE "AssertionError"]
    /\ UNCHANGED <<R, patches, diff, eigen_probe, weights, update, n, d, d_mean, pt, cm, dv, pa, co, cs, vp, kb>>

NextEigen ==
    \/ \E w \in W : TaskGetUpdate(w)
    \/ ReduceUpdate
    \/ AllreduceUpdate
    \/ BcastUpdate
    \/ \E w \in W : TaskGetD(w)
    \/ ReduceD
    \/ AllreduceD
    \/ BcastD
    \/ \E w \in W : TaskGetWeightsMean(w)
    \/ Return
    \/ Raise

SpecEigen == InitEigen /\ [][NextEigen]_vars

-----------------------------------------------------------------------------
(* Ptycho as a context manager: `with Ptycho(...) as op: <body>`.          *)
(* The sub-operators are the classes passed to the constructor; their      *)
(* __enter__ and __exit__ either return or raise.                          *)

SubOps == {"propagation", "diffraction"}

\* the sub-operator calls a method of Ptycho makes, in order (lines 99-136)
ptycho_fwd == <<"diffraction.fwd", "propagation.fwd">>

ptycho_adj == <<"propagation.adj", "diffraction.adj">>

ptycho_adj_probe == <<"propagation.adj", "diffraction.adj_probe">>

ptycho_cost == ptycho_fwd \o <<"propagation.cost">>

ptycho_grad == ptycho_fwd \o <<"propagation.grad">> \o ptycho_adj

ptycho_grad_probe == ptycho_fwd \o <<"propagation.grad">> \o ptycho_adj_probe

PtychoMethods ==
    {ptycho_fwd, ptycho_adj, ptycho_adj_probe, ptycho_cost, ptycho_grad, ptycho_grad_probe}

InitPtycho ==
    /\ IdleEigen /\ IdleComm /\ IdleDivided /\ IdleOperators
    /\ pt = [pc |-> "enter_propagation", scope |-> 1,
             acquired |-> [s \in SubOps |-> FALSE],
             exits |-> [s \in SubOps |-> 0],
             exc |-> FALSE, ops |-> 0, last |-> <<>>]

\* Ptycho.__enter__, line 91: self.propagation.__enter__()
\* An exception leaves __enter__, and the with statement calls no __exit__.
ptycho_enter_first(st, ok) ==
    IF ok THEN [st EXCEPT !.acquired["propagation"] = TRUE, !.pc = "enter_diffraction"]
    ELSE [st EXCEPT !.pc = "left", !.exc = TRUE]

\* Ptycho.__enter__, lines 92-93: self.diffraction.__enter__(); return self
ptycho_enter_second(st, ok) ==
    IF ok THEN [st EXCEPT !.acquired["diffraction"] = TRUE, !.pc = "body"]
    ELSE [st EXCEPT !.pc = "left", !.exc = TRUE]

\* Ptycho.__exit__, line 96: self.propagation.__exit__(type, value, traceback)
ptycho_exit_first(st, ok) ==
    IF ok THEN [st EXCEPT !.exits["propagation"] = @ + 1, !.pc = "exit_diffraction"]
    ELSE [st EXCEPT !.exits["propagation"] = @ + 1, !.pc = "left", !.exc = TRUE]

\* Ptycho.__exit__, line 97: self.diffraction.__exit__(type, value, traceback)
\* __exit__ returns None, so an exception of the body stays in flight.
ptycho_exit_second(st, ok) ==
    IF ok THEN [st EXCEPT !.exits["diffraction"] = @ + 1, !.pc = "left"]
    ELSE [st EXCEPT !.exits["diffraction"] = @ + 1, !.pc = "left", !.exc = TRUE]

EnterPropagation ==
    /\ pt.pc = "enter_propagation"
    /\ \E ok \in BOOLEAN : pt' = ptycho_enter_first(pt, ok)
    /\ UNCHANGED <<eigenVars, cm, dv, pa, co, cs, vp, kb>>

EnterDiffraction ==
    /\ pt.pc = "enter_diffraction"
    /\ \E ok \in BOOLEAN : pt' = ptycho_enter_second(pt, ok)
    /\ UNCHANGED <<eigenVars, cm, dv, pa, co, cs, vp, kb>>

\* the body calls a method of the operator, which returns
BodyCall ==
    /\ pt.pc = "body" /\ pt.ops < MaxBodyOps
    /\ \E method \in PtychoMethods : pt' = [pt EXCEPT !.ops = @ + 1, !.last = method]
    /\ UNCHANGED <<eigenVars, cm, dv, pa, co, cs, vp, kb>>

\* the body ends, normally or with an exception; the with statement calls
\* Ptycho.__exit__
BodyEnd ==
    /\ pt.pc = "body"
    /\ \E raised \in BOOLEAN : pt' = [pt EXCEPT !.pc = "exit_propagation", !.exc = raised]
    /\ UNCHANGED <<eigenVars, cm, dv, pa, co, cs, vp, kb>>

ExitPropagation ==
    /\ pt.pc = "exit_propagation"
    /\ \E ok \in BOOLEAN : pt' = ptycho_exit_first(pt, ok)
    /\ UNCHANGED <<eigenVars, cm, dv, pa, co, cs, vp, kb>>

ExitDiffraction ==
    /\ pt.pc = "exit_diffraction"
    /\ \E ok \in BOOLEAN : pt' = ptycho_exit_second(pt, ok)
    /\ UNCHANGED <<eigenVars, cm, dv, pa, co, cs, vp, kb>>

\* the same operator object is used in another with statement
Reenter ==
    /\ pt.pc = "left" /\ pt.scope < MaxScopes
    /\ pt' = [pt EXCEPT !.pc = "enter_propagation", !.scope = @ + 1,
                         !.acquired = [s \in SubOps |-> FALSE],
                         !.exits = [s \in SubOps |-> 0],
                         !.exc = FALSE, !.ops = 0, !.last = <<>>]
    /\ UNCHANGED <<eigenVars, cm, dv, pa, co, cs, vp, kb>>

NextPtycho ==
    \/ EnterPropagation
    \/ EnterDiffraction
    \/ BodyCall
    \/ BodyEnd
    \/ ExitPropagation
    \/ ExitDiffraction
    \/ Reenter

SpecPtycho == InitPtycho /\ [][NextPtycho]_vars

-----------------------------------------------------------------------------
(* Communicator test (tests/communicators/test_comm.py): one test method   *)
(* run by every MPI rank, each rank with its own pool of workers.          *)

Ranks(size) == 0 .. (size - 1)

\* the src of the ranks other than r, as mpi_Allreduce takes them
OtherSrc(r, srcs) ==
    [k \in 1 .. (Cardinality(DOMAIN srcs) - 1) |-> srcs[IF k - 1 < r THEN k - 1 ELSE k]]

\* comm.Allreduce_mean(x) on rank r, the other ranks contributing their
\* pool's reduce_mean
Allreduce_mean_rank(lists, r) ==
    LET srcs == [k \in DOMAIN lists |-> reduce_mean(lists[k])]
    IN  Allreduce_mean(lists[r], OtherSrc(r, srcs))

Scalar(x) == [i \in {0} |-> x]

\* the test of the distributed mean (lines 47-56); the tests of the sum
\* all-reduces (lines 25-45 and 59-73) call collectives of tike.communicators
\* whose code is not among the sources, and are not part of the model
Tests == {"reduce_mean"}

\* the array the test creates (line 49)
test_literal(test) == Scalar(I(1))

\* the arrays the test is run with: the one it creates, and others
TestArrays == {Scalar(I(1)), Scalar(I(3)), Scalar(<<1, 2>>), Scalar(I(-2))}

\* a_list = self.comm.pool.bcast([a])  (line 50)
test_a_list(a, workers) == bcast(a, workers)

\* the collective the test calls (line 52)
test_result(test, lists, r) == Allreduce_mean_rank(lists, r)

\* what the test compares the result with (line 51)
test_truth(test, a, nw, size) == Scalar(I(1))

\* the assertion of the test (line 56)
test_passes(test, result, truth) == result = truth

InitComm ==
    /\ IdleEigen /\ IdlePtycho /\ IdleDivided /\ IdleOperators
    /\ \E test \in Tests, a \in TestArrays, nw \in 1 .. MaxWorkers, size \in 1 .. MaxNodes :
        cm = [test |-> test, a |-> a, nw |-> nw, size |-> size,
              pc |-> [r \in Ranks(size) |-> "bcast"],
              a_list |-> [r \in Ranks(size) |-> None],
              result |-> [r \in Ranks(size) |-> None],
              verdict |-> [r \in Ranks(size) |-> "none"]]

RanksOf(st) == IF "size" \in DOMAIN st THEN Ranks(st.size) ELSE {}

\* rank r broadcasts the array to its workers
TestBcast(r) ==
    /\ cm.pc[r] = "bcast"
    /\ cm' = [cm EXCEPT !.pc[r] = "collective",
                         !.a_list[r] = test_a_list(cm.a, Workers(cm.nw))]
    /\ UNCHANGED <<eigenVars, pt, dv, pa, co, cs, vp, kb>>

\* rank r returns from the blocking collective (line 52): it
\* returns once every rank has entered it, whether or not the other ranks
\* have returned from it yet
TestCollective(r) ==
    /\ cm.pc[r] = "collective"
    /\ \A q \in RanksOf(cm) : cm.pc[q] # "bcast"
    /\ cm' = [cm EXCEPT !.pc[r] = "check",
                         !.result[r] = test_result(cm.test, cm.a_list, r)]
    /\ UNCHANGED <<eigenVars, pt, dv, pa, co, cs, vp, kb>>

\* rank r evaluates the assertion of the test
TestCheck(r) ==
    /\ cm.pc[r] = "check"
    /\ cm' = [cm EXCEPT !.pc[r] = "done",
                         !.verdict[r] =
                            IF test_passes(cm.test, cm.result[r],
                                           test_truth(cm.test, cm.a, cm.nw, cm.size))
                            THEN "pass" ELSE "fail"]
    /\ UNCHANGED <<eigenVars, pt, dv, pa, co, cs, vp, kb>>

NextComm ==
    \/ \E r \in RanksOf(cm) : TestBcast(r)
    \/ \E r \in RanksOf(cm) : TestCollective(r)
    \/ \E r \in RanksOf(cm) : TestCheck(r)

SpecComm == InitComm /\ [][NextComm]_vars

-----------------------------------------------------------------------------
(* divided (ptycho/solvers/divided.py).  Arrays are symbolic terms: a term *)
(* names the operation that produced the array and the terms it was        *)
(* produced from, so two arrays are equal when they were computed the same *)
(* way from the same inputs.                                               *)

T(op, args) == [op |-> op, args |-> args]

Atom(name) == T(name, <<>>)

\* Ptycho.fwd (operators/ptycho.py lines 99-102)
op_fwd(probe, scan, psi) ==
    T("propagation.fwd", <<T("diffraction.fwd", <<psi, scan, probe>>)>>)

\* op.propagation.adj (operators/propagation.py lines 29-35)
propagation_adj(farplane) == T("propagation.adj", <<farplane>>)

\* a local name that no statement has bound yet
Unbound == Atom("unbound")

\* the number num_iter as a term
RECURSIVE Count(_)
Count(k) == IF k = 0 THEN Atom("0") ELSE T("+1", <<Count(k - 1)>>)

\* the loops of update_probe (lines 136-150) and update_object (lines
\* 218-232) after k iterations, as terms over the local name x the loop
\* starts from and the functions grad and step defined in the enclosing
\* call: x, and the grad0 and dir_ an iteration leaves to the next one.
\* Iteration 0 takes dir_ = -grad1, the later ones
\* dir_ = direction_dy(xp, grad0, grad1, dir_).
RECURSIVE descent_loop(_)
descent_loop(k) ==
    IF k = 0 THEN [x |-> Atom("x"), grad0 |-> Unbound, dir_ |-> Unbound]
    ELSE LET before == descent_loop(k - 1)
             grad1 == T("grad", <<before.x>>)
             dir_ == IF k - 1 = 0 THEN T("-", <<grad1>>)
                     ELSE T("direction_dy", <<before.grad0, grad1, before.dir_>>)
         IN  [x |-> T("step", <<before.x, dir_>>), grad0 |-> grad1, dir_ |-> dir_]

\* update_phase (lines 57-78): <<farplane, cost>>, what the one call of
\* tike.opt.conjugate_gradient returns: the farplane after num_iter
\* iterations and cost_function (lines 64-66) of that farplane
update_phase(data, farplane, num_iter) ==
    LET x == T("conjugate_gradient", <<farplane, data, Count(num_iter)>>)
    IN  <<x, T("farplane cost", <<x, data>>)>>

\* update_object (lines 156-236): <<psi, cost>>, psi the value of the loop
\* with x bound to the argument psi and grad, step to the closures over
\* nearplane, probe and scan
update_object(nearplane, probe, scan, psi, num_iter) ==
    LET x == T("object descent", <<descent_loop(num_iter).x, psi, nearplane, probe, scan>>)
    IN  <<x, T("object cost", <<x, nearplane, probe, scan>>)>>

\* update_probe (lines 81-153): <<probe, cost>>, probe the value of the loop
\* with x bound to the argument probe and grad, step to the closures over
\* nearplane, scan and psi
update_probe(nearplane, probe, scan, psi, num_iter) ==
    LET x == T("probe descent", <<descent_loop(num_iter).x, probe, nearplane, scan, psi>>)
    IN  <<x, T("probe cost", <<x, nearplane, scan, psi>>)>>

Call(fn, args) == [fn |-> fn, args |-> args]

\* line 25
divided_fwd(st) ==
    [st EXCEPT !.farplane = op_fwd(st.probe, st.scan, st.psi),
               !.log = Append(@, Call("op.fwd", <<st.psi, st.scan, st.probe>>)),
               !.pc = "update_phase"]

\* line 26
divided_phase(st) ==
    LET r == update_phase(st.data, st.farplane, st.cg_iter)
    IN  [st EXCEPT !.farplane = r[1], !.cost = r[2],
                   !.log = Append(@, Call("update_phase", <<st.data, st.farplane>>)),
                   !.pc = "adj"]

\* line 27
divided_adj(st) ==
    [st EXCEPT !.nearplane = propagation_adj(st.farplane),
               !.log = Append(@, Call("op.propagation.adj", <<st.farplane>>)),
               !.pc = "object"]

\* mutant: the cost of the object subproblem is dropped
divided_object_KeepCost(st) ==
    IF st.recover_psi
    THEN LET r == update_object(st.nearplane, st.probe, st.scan, st.psi, st.cg_iter)
         IN  [st EXCEPT !.psi = r[1],
                        !.log = Append(@, Call("update_object",
                                    <<st.nearplane, st.probe, st.scan, st.psi>>)),
                        !.pc = "probe"]
    ELSE [st EXCEPT !.pc = "probe"]

\* lines 28-36
divided_object(st) ==
    IF st.recover_psi
    THEN LET r == update_object(st.nearplane, st.probe, st.scan, st.psi, st.cg_iter)
         IN  [st EXCEPT !.psi = r[1], !.cost = r[2],
                        !.log = Append(@, Call("update_object",
                                    <<st.nearplane, st.probe, st.scan, st.psi>>)),
                        !.pc = "probe"]
    ELSE [st EXCEPT !.pc = "probe"]

\* mutant: the probe subproblem is given the psi divided was called with
divided_probe_OldPsi(st) ==
    IF st.recover_probe
    THEN LET r == update_probe(st.nearplane, st.probe, st.scan, st.in_psi, st.cg_iter)
         IN  [st EXCEPT !.probe = r[1], !.cost = r[2],
                        !.log = Append(@, Call("update_probe",
                                    <<st.nearplane, st.probe, st.scan, st.in_psi>>)),
                        !.pc = "return"]
    ELSE [st EXCEPT !.pc = "return"]

\* lines 37-45
divided_probe(st) ==
    IF st.recover_probe
    THEN LET r == update_probe(st.nearplane, st.probe, st.scan, st.psi, st.cg_iter)
         IN  [st EXCEPT !.probe = r[1], !.cost = r[2],
                        !.log = Append(@, Call("update_probe",
                                    <<st.nearplane, st.probe, st.scan, st.psi>>)),
                        !.pc = "return"]
    ELSE [st EXCEPT !.pc = "return"]

\* mutant: lines 46-47 are live code
divided_positions_Live(st) ==
    IF st.recover_positions
    THEN [st EXCEPT !.scan = T("update_positions_pd", <<st.data, st.psi, st.probe, st.scan>>),
                    !.cost = T("positions cost", <<st.data, st.psi, st.probe, st.scan>>),
                    !.log = Append(@, Call("update_positions_pd",
                                <<st.data, st.psi, st.probe, st.scan>>))]
    ELSE st

\* lines 46-47 are comments: nothing is executed for recover_positions
divided_positions(st) == st

\* lines 48-54
divided_return(st) ==
    [st EXCEPT !.ret = [psi |-> st.psi, probe |-> st.probe, cost |-> st.cost,
                        scan |-> st.scan, farplane |-> st.farplane],
               !.pc = "returned"]

InitDivided ==
    /\ IdleEigen /\ IdlePtycho /\ IdleComm /\ IdleOperators
    /\ \E recover_psi \in BOOLEAN, recover_probe \in BOOLEAN, recover_positions \in BOOLEAN,
          cg_iter \in 1 .. MaxCgIter :
        dv = [pc |-> "fwd", outer |-> 1,
              recover_psi |-> recover_psi, recover_probe |-> recover_probe,
              recover_positions |-> recover_positions, cg_iter |-> cg_iter,
              data |-> Atom("data"), probe |-> Atom("probe"), scan |-> Atom("scan"),
              psi |-> Atom("psi"),
              in_probe |-> Atom("probe"), in_scan |-> Atom("scan"), in_psi |-> Atom("psi"),
              farplane |-> None, nearplane |-> None, cost |-> None,
              log |-> <<>>, ret |-> None]

Fwd ==
    /\ dv.pc = "fwd"
    /\ dv' = divided_fwd(dv)
    /\ UNCHANGED <<eigenVars, pt, cm, pa, co, cs, vp, kb>>

UpdatePhase ==
    /\ dv.pc = "update_phase"
    /\ dv' = divided_phase(dv)
    /\ UNCHANGED <<eigenVars, pt, cm, pa, co, cs, vp, kb>>

PropagationAdj ==
    /\ dv.pc = "adj"
    /\ dv' = divided_adj(dv)
    /\ UNCHANGED <<eigenVars, pt, cm, pa, co, cs, vp, kb>>

RecoverPsi ==
    /\ dv.pc = "object"
    /\ dv' = divided_object(dv)
    /\ UNCHANGED <<eigenVars, pt, cm, pa, co, cs, vp, kb>>

RecoverProbe ==
    /\ dv.pc = "probe"
    /\ dv' = divided_probe(dv)
    /\ UNCHANGED <<eigenVars, pt, cm, pa, co, cs, vp, kb>>

DividedReturn ==
    /\ dv.pc = "return"
    /\ dv' = divided_return(divided_positions(dv))
    /\ UNCHANGED <<eigenVars, pt, cm, pa, co, cs, vp, kb>>

\* the caller's next outer iteration: divided is called with what the last
\* call returned, and with any flags
DividedAgain ==
    /\ dv.pc = "returned" /\ dv.outer < MaxOuter
    /\ \E recover_psi \in BOOLEAN, recover_probe \in BOOLEAN, recover_positions \in BOOLEAN :
        dv' = [dv EXCEPT !.pc = "fwd", !.outer = @ + 1,
                         !.recover_psi = recover_psi, !.recover_probe = recover_probe,
                         !.recover_positions = recover_positions,
                         !.psi = dv.ret.psi, !.probe = dv.ret.probe, !.scan = dv.ret.scan,
                         !.in_psi = dv.ret.psi, !.in_probe = dv.ret.probe,
                         !.in_scan = dv.ret.scan,
                         !.farplane = None, !.nearplane = None, !.cost = None,
                         !.log = <<>>, !.ret = None]
    /\ UNCHANGED <<eigenVars, pt, cm, pa, co, cs, vp, kb>>

NextDivided ==
    \/ Fwd
    \/ UpdatePhase
    \/ PropagationAdj
    \/ RecoverPsi
    \/ RecoverProbe
    \/ DividedReturn
    \/ DividedAgain

SpecDivided == InitDivided /\ [][NextDivided]_vars

-----------------------------------------------------------------------------
(* Properties of update_eigen_probe *)

Active == ep.pc # "idle"

\* what worker w's _get_update returns, from the arguments of the call
LocalUpdate(w) ==
    get_update(R[w], ep.entry_eigen[w], ep.entry_weights[w], ep.c, ep.m, ep.nep50)

\* what worker w's _get_d returns as d_mean, from its updated eigen probe
LocalDMean(w) ==
    get_d_mean(get_d_d(get_d_phi(patches[w], eigen_probe[w], ep.c, ep.m)))

UpdateDelivered == Active /\ ep.job \in {"_get_d", "_get_weights_mean"}

DMeanDelivered == Active /\ ep.job = "_get_weights_mean"

EntryEqual == \A w \in W : ep.entry_eigen[w] = ep.entry_eigen[0]

\* C1: after the reduction+broadcast of `update` and after the one of
\* `d_mean` every worker of the pool holds the same value, with and without
\* use_mpi; and when the workers' eigen_probe replicas are equal on entry
\* they are equal on return.
C1_ReplicasAgree ==
    /\ UpdateDelivered => \A w \in W : update[w] = update[0]
    /\ DMeanDelivered => \A w \in W : d_mean[w] = d_mean[0]
    /\ (Active /\ ep.pc = "returned" /\ EntryEqual) =>
            \A w \in W : eigen_probe[w] = eigen_probe[0]

\* a call with two workers whose local updates differ has returned, the
\* replicas equal on entry and changed by the call
C1_Witness ==
    /\ Active /\ ep.pc = "returned" /\ ep.nw >= 2 /\ EntryEqual
    /\ LocalUpdate(0) # LocalUpdate(1)
    /\ eigen_probe[1] # ep.entry_eigen[1]

\* the squared weight norm of worker w, per view, on entry
EntryNorm(w) == norm_weights(SelWeights(ep.entry_weights[w], ep.c, ep.m))

\* on some worker the squared weight norm is zero in every view: the
\* weights of the chosen (c, m) are zero at all positions
AllZeroNormOnEntry == \E w \in W : \A v \in Views(ep.nv) : EntryNorm(w)[v] = F32Zero

\* C2: whenever the squared weight norm of the chosen (c, m), summed over
\* the positions, is zero throughout (the all-zero weight norm) on a
\* worker, update_eigen_probe does not return a result and the error it
\* fails with is the ValueError.
C2_ZeroNormIsValueError ==
    (Active /\ AllZeroNormOnEntry) =>
        /\ ep.pc # "returned"
        /\ ep.pc = "raised" => ep.exc = "ValueError"

\* a call on two views, all selected weights of a worker zero, has failed
\* with the ValueError
C2_Witness ==
    /\ Active /\ AllZeroNormOnEntry /\ ep.nv >= 2
    /\ ep.pc = "raised" /\ ep.exc = "ValueError"

\* the mean of the per-worker values on this node, then the average with
\* what the other nodes contribute
NodeMean(local, remote, dtype) ==
    LET pool_mean == [v \in Views(ep.nv) |->
                        IF dtype = "complex64"
                        THEN C64Mean([w \in W |-> local[w][v]], ep.nep50)
                        ELSE F32Mean([w \in W |-> local[w][v]])]
        size == F32FromInt(Len(remote) + 1)
    IN  [v \in Views(ep.nv) |->
            LET total == TypedSumTo(pool_mean, remote, v, Len(remote), dtype)
            IN  IF dtype = "complex64" THEN C64Div(total, C64FromReal(size))
                ELSE F32Div(total, size)]

\* C4: the value every worker receives is the per-node mean of the workers'
\* values averaged across the nodes; on one node it is the pool's mean with
\* and without use_mpi; and without use_mpi no cross-node collective is
\* invoked.
C4_DistributedMean ==
    /\ (UpdateDelivered /\ ep.use_mpi) =>
            LET mean == NodeMean([x \in W |-> LocalUpdate(x)], ep.remote[1], "complex64")
            IN  \A w \in W : update[w] = mean
    /\ (DMeanDelivered /\ ep.use_mpi) =>
            LET mean == NodeMean([x \in W |-> LocalDMean(x)], ep.remote[2], "float32")
            IN  \A w \in W : d_mean[w] = mean
    /\ (UpdateDelivered /\ (~ep.use_mpi \/ ep.nodes = 1)) =>
            LET mean == NodeMean([x \in W |-> LocalUpdate(x)], <<>>, "complex64")
            IN  \A w \in W : update[w] = mean
    /\ (DMeanDelivered /\ (~ep.use_mpi \/ ep.nodes = 1)) =>
            LET mean == NodeMean([x \in W |-> LocalDMean(x)], <<>>, "float32")
            IN  \A w \in W : d_mean[w] = mean
    /\ (Active /\ ~ep.use_mpi) => ep.mpi_calls = 0

\* on one node with use_mpi, two workers whose local values differ have
\* received the mean of d_mean
C4_Witness ==
    /\ DMeanDelivered /\ ep.use_mpi /\ ep.nodes = 1 /\ ep.nw >= 2
    /\ LocalUpdate(0) # LocalUpdate(1)
    /\ LocalDMean(0) # LocalDMean(1)
    /\ ep.mpi_calls = 2

TaskStep(w) == ep.task[w] = "running" /\ ep'.task[w] # "running"

OnlyReplicaChanged(old, new, w) == \A x \in W : x # w => new[x] = old[x]

MainStep == ep'.pc # ep.pc

\* C5: eigen_probe, weights and d are written only by a task of a pool.map
\* step, each task writing its own worker's replica; the calling thread
\* reduces and broadcasts only when no task is running and writes none of
\* them; and the steps follow each other in the order map(_get_update),
\* reduce+bcast(update), map(_get_d), reduce+bcast(d_mean),
\* map(_get_weights_mean).
C5_MapOnlyMutation ==
    [][Active =>
        /\ eigen_probe' # eigen_probe =>
                \E w \in W : /\ TaskStep(w) /\ ep.job = "_get_d"
                              /\ OnlyReplicaChanged(eigen_probe, eigen_probe', w)
        /\ weights' # weights =>
                \E w \in W : /\ TaskStep(w) /\ ep.job = "_get_weights_mean"
                              /\ OnlyReplicaChanged(weights, weights', w)
        /\ d' # d =>
                \E w \in W : /\ TaskStep(w) /\ ep.job \in {"_get_d", "_get_weights_mean"}
                              /\ OnlyReplicaChanged(d, d', w)
        /\ (update' # update /\ ep.job # "_get_update") =>
                /\ ep.pc \in {"map_update", "bcast_update"}
                /\ \A w \in W : ep.task[w] = "done"
        /\ (d_mean' # d_mean /\ ep.job # "_get_d") =>
                /\ ep.pc \in {"map_d", "bcast_d"}
                /\ \A w \in W : ep.task[w] = "done"
        /\ MainStep =>
                /\ <<ep.pc, ep'.pc>> \in
                        {<<"map_update", "map_d">>, <<"map_update", "bcast_update">>,
                         <<"bcast_update", "map_d">>,
                         <<"map_d", "map_weights">>, <<"map_d", "bcast_d">>,
                         <<"bcast_d", "map_weights">>,
                         <<"map_weights", "returned">>,
                         <<"map_update", "raised">>, <<"map_d", "raised">>,
                         <<"map_weights", "raised">>}
                /\ eigen_probe' = eigen_probe /\ weights' = weights /\ d' = d
    ]_vars

\* a call with two workers has returned after both replicas of the eigen
\* probe and of the weights were written
C5_Witness ==
    /\ Active /\ ep.pc = "returned" /\ ep.nw >= 2
    /\ \A w \in W : eigen_probe[w] # ep.entry_eigen[w] /\ weights[w] # ep.entry_weights[w]

-----------------------------------------------------------------------------
(* Properties of Ptycho as a context manager *)

\* C3: once the with statement is left, every sub-operator whose __enter__
\* has returned has had its __exit__ called exactly once.
C3_SubOperatorsReleased ==
    pt.pc = "left" => \A s \in SubOps : pt.acquired[s] => pt.exits[s] = 1


-----------------------------------------------------------------------------
(* Properties of the communicator *)

HasResult(r) == cm.pc[r] \in {"check", "done"}

\* C6: a constant broadcast to the N workers of every node and then reduced
\* with the distributed mean gives the constant back, on every rank, for
\* every N and every number of nodes; the test's assertion passes.
C6_MeanOfConstant ==
    \A r \in RanksOf(cm) :
        cm.test = "reduce_mean" =>
            /\ HasResult(r) => cm.result[r] = cm.a
            /\ cm.a = test_literal(cm.test) => cm.verdict[r] # "fail"

\* the mean test has finished on two ranks of two workers each, with a
\* constant other than the one of the test
C6_Witness ==
    /\ RanksOf(cm) # {} /\ cm.test = "reduce_mean" /\ cm.size >= 2 /\ cm.nw >= 2
    /\ cm.a = Scalar(<<1, 2>>)
    /\ \A r \in RanksOf(cm) : cm.pc[r] = "done"

-----------------------------------------------------------------------------
(* Properties of divided *)

LogNames == [i \in 1 .. Len(dv.log) |-> dv.log[i].fn]

CallOrder ==
    <<"op.fwd", "update_phase", "op.propagation.adj">>
        \o (IF dv.recover_psi THEN <<"update_object">> ELSE <<>>)
        \o (IF dv.recover_probe THEN <<"update_probe">> ELSE <<>>)

IsPrefix(a, b) == Len(a) <= Len(b) /\ a = SubSeq(b, 1, Len(a))

CallsOf(fn) == {i \in 1 .. Len(dv.log) : dv.log[i].fn = fn}

DividedActive == dv.pc # "idle"

\* C8: the calls of one divided are, in this order and each at most once,
\* the forward model, the phase subproblem, the adjoint propagation, the
\* object subproblem if recover_psi, the probe subproblem if recover_probe;
\* both nearplane subproblems are given the adjoint-propagated farplane of
\* the phase subproblem, and the probe subproblem the psi the object
\* subproblem of this call returned.
C8_SubproblemOrder ==
    DividedActive =>
        /\ IsPrefix(LogNames, CallOrder)
        /\ dv.pc = "returned" => LogNames = CallOrder
        /\ \A i \in CallsOf("update_object") \cup CallsOf("update_probe") :
                /\ dv.log[i].args[1] = propagation_adj(dv.farplane)
                /\ dv.farplane.op = "conjugate_gradient"
        /\ \A i \in CallsOf("update_probe") : \A j \in CallsOf("update_object") :
                /\ dv.log[i].args[4].op = "object descent"
                /\ dv.log[i].args[4] =
                        update_object(dv.log[j].args[1], dv.log[j].args[2],
                                      dv.log[j].args[3], dv.log[j].args[4], dv.cg_iter)[1]

\* a call with recover_psi and recover_probe has returned
C8_Witness ==
    /\ DividedActive /\ dv.pc = "returned" /\ dv.recover_psi /\ dv.recover_probe
    /\ dv.outer = 2

\* C9: the cost divided returns is the one computed last: the probe
\* subproblem's if recover_probe, else the object subproblem's if
\* recover_psi, else the phase subproblem's; each is the cost of the array
\* returned with it, and the farplane returned is the phase-corrected one.
C9_LastCost ==
    (DividedActive /\ dv.pc = "returned") =>
        /\ dv.ret.cost.op = (IF dv.recover_probe THEN "probe cost"
                             ELSE IF dv.recover_psi THEN "object cost"
                             ELSE "farplane cost")
        /\ dv.ret.cost.args[1] = (IF dv.recover_probe THEN dv.ret.probe
                                  ELSE IF dv.recover_psi THEN dv.ret.psi
                                  ELSE dv.ret.farplane)
        /\ dv.ret.farplane =
                update_phase(dv.data, op_fwd(dv.in_probe, dv.in_scan, dv.in_psi),
                             dv.cg_iter)[1]
        /\ dv.ret.psi = dv.psi /\ dv.ret.probe = dv.probe /\ dv.ret.scan = dv.scan

\* a call with recover_psi and without recover_probe has returned
C9_Witness ==
    /\ DividedActive /\ dv.pc = "returned" /\ dv.recover_psi /\ ~dv.recover_probe
    /\ dv.ret.cost.op = "object cost"

\* C10: whatever recover_positions is, the scan is never changed and
\* update_positions_pd is never called; psi is returned unchanged when
\* recover_psi is false and probe when recover_probe is false.
C10_PositionsUntouched ==
    DividedActive =>
        /\ dv.scan = dv.in_scan
        /\ CallsOf("update_positions_pd") = {}
        /\ dv.pc = "returned" =>
                /\ dv.ret.scan = dv.in_scan
                /\ ~dv.recover_psi => dv.ret.psi = dv.in_psi
                /\ ~dv.recover_probe => dv.ret.probe = dv.in_probe

\* a call with recover_positions and without recover_psi has returned,
\* having changed the probe
C10_Witness ==
    /\ DividedActive /\ dv.pc = "returned" /\ dv.recover_positions
    /\ ~dv.recover_psi /\ dv.recover_probe /\ dv.ret.probe # dv.in_probe

-----------------------------------------------------------------------------
(* tike.operators.cupy.Patch: fwd and adj up to the kernel launch.  An     *)
(* array argument is its shape and dtype; the Python value None has no     *)
(* shape.  A call raises (AttributeError, AssertionError) or launches the  *)
(* kernel, which writes the output buffer, and returns that buffer.        *)

MaxN == 2
MaxRepeat == 2
MaxPatchWidth == 2
MaxLeading == 2

NoneArg == [dtype |-> "NoneType"]

Array(shape, dtype) == [shape |-> shape, dtype |-> dtype]

\* shape[:-k]
ShapeBut(shape, k) == SubSeq(shape, 1, Len(shape) - k)

\* shape[-k]
ShapeAt(shape, k) == shape[Len(shape) + 1 - k]

\* cp.zeros(shape, dtype=np.csingle)
zeros(shape) == Array(shape, "complex64")

NoCall == [exc |-> "none"]

Raised(exc) == [exc |-> exc]

\* line 61 / 112: patch_width = patches.shape[-1] if patch_width == 0 else patch_width
\* With patches None the attribute access raises AttributeError.
default_patch_width(patches_, patch_width) ==
    IF patch_width = 0
    THEN IF patches_ = NoneArg THEN Raised("AttributeError")
         ELSE [exc |-> "none", patch_width |-> ShapeAt(patches_.shape, 1)]
    ELSE [exc |-> "none", patch_width |-> patch_width]

\* lines 62-67: the output buffer of fwd when none is supplied
fwd_allocate(positions, patches_, patch_width, nrepeat) ==
    IF patches_ = NoneArg
    THEN zeros(ShapeBut(positions.shape, 2)
               \o <<ShapeAt(positions.shape, 2) * nrepeat, patch_width, patch_width>>)
    ELSE patches_

\* line 72 without its comparison: any patch count is accepted
fwd_count_ok_Unchecked(positions, patches_, nrepeat) == TRUE

\* line 72: assert positions.shape[-2] * nrepeat == patches.shape[-3]
fwd_count_ok(positions, patches_, nrepeat) ==
    ShapeAt(positions.shape, 2) * nrepeat = ShapeAt(patches_.shape, 3)

\* lines 74-76 without the check of patches.dtype
dtypes_ok_NoPatches(images, patches_, positions) ==
    /\ images.dtype = "complex64"
    /\ positions.dtype = "float32"

\* lines 74-76 / 128-130: the three dtype assertions
dtypes_ok(images, patches_, positions) ==
    /\ images.dtype = "complex64"
    /\ patches_.dtype = "complex64"
    /\ positions.dtype = "float32"

\* lines 68-76: the assertions of fwd, in order; TRUE when all pass
fwd_asserts(images, positions, patches_, patch_width, nrepeat) ==
    /\ patch_width <= ShapeAt(patches_.shape, 1)
    /\ ShapeBut(images.shape, 2) = ShapeBut(positions.shape, 2)
    /\ ShapeBut(positions.shape, 2) = ShapeBut(patches_.shape, 3)
    /\ fwd_count_ok(positions, patches_, nrepeat)
    /\ ShapeAt(positions.shape, 1) = 2
    /\ dtypes_ok(images, patches_, positions)

\* Patch.fwd, lines 61-76: what the call has when it reaches the kernel launch
Patch_fwd(images, positions, patches_, patch_width, nrepeat) ==
    LET pw == default_patch_width(patches_, patch_width)
    IN  IF pw.exc # "none" THEN pw
        ELSE LET buf == fwd_allocate(positions, patches_, pw.patch_width, nrepeat)
             IN  IF fwd_asserts(images, positions, buf, pw.patch_width, nrepeat)
                 THEN [exc |-> "none", patch_width |-> pw.patch_width,
                       images |-> images, patches |-> buf, out |-> "patches",
                       allocated |-> patches_ = NoneArg]
                 ELSE Raised("AssertionError")

\* lines 114-118: the output buffer of adj when none is supplied
adj_allocate(positions, images, height, width) ==
    IF images = NoneArg
    THEN zeros(ShapeBut(positions.shape, 2) \o <<height, width>>)
    ELSE images

\* lines 119-130: the assertions of adj after the allocation, in order
adj_asserts(images, positions, patches_, nrepeat) ==
    LET leading == ShapeBut(images.shape, 2)
        N == ShapeAt(positions.shape, 2)
        K == ShapeAt(patches_.shape, 3)
    IN  /\ ShapeBut(positions.shape, 2) = leading
        /\ ShapeAt(positions.shape, 1) = 2
        /\ ShapeBut(patches_.shape, 3) = leading
        /\ (N * nrepeat) % K = 0 /\ K >= nrepeat
        /\ ShapeAt(patches_.shape, 1) = ShapeAt(patches_.shape, 2)
        /\ dtypes_ok(images, patches_, positions)

\* Patch.adj, lines 112-130
Patch_adj(positions, patches_, images, patch_width, height, width, nrepeat) ==
    LET pw == default_patch_width(patches_, patch_width)
    IN  IF pw.exc # "none" THEN pw
        ELSE IF ~(pw.patch_width <= ShapeAt(patches_.shape, 1)) THEN Raised("AssertionError")
        ELSE LET buf == adj_allocate(positions, images, height, width)
             IN  IF adj_asserts(buf, positions, patches_, nrepeat)
                 THEN [exc |-> "none", patch_width |-> pw.patch_width,
                       images |-> buf, patches |-> patches_, out |-> "images",
                       allocated |-> images = NoneArg]
                 ELSE Raised("AssertionError")

\* the arguments of a call; at most one shape fault and one dtype fault
ShapeFaults == {"none", "images", "positions", "patches", "last", "square"}

DtypeFaults == {"none", "images", "patches", "positions"}

Leading(lead, other) == IF other THEN <<(lead % MaxLeading) + 1>> ELSE <<lead>>

ImagesIn(lead, sf, df) ==
    Array(Leading(lead, sf = "images") \o <<3, 3>>,
          IF df = "images" THEN "complex128" ELSE "complex64")

PositionsIn(lead, sf, df, N) ==
    Array(Leading(lead, sf = "positions") \o <<N, IF sf = "last" THEN 3 ELSE 2>>,
          IF df = "positions" THEN "float64" ELSE "float32")

PatchesIn(lead, sf, df, K, w) ==
    Array(Leading(lead, sf = "patches") \o <<K, IF sf = "square" THEN w + 1 ELSE w, w>>,
          IF df = "patches" THEN "complex128" ELSE "complex64")

InitPatch ==
    /\ IdleEigen /\ IdlePtycho /\ IdleComm /\ IdleDivided
    /\ IdleCost /\ IdleConstrain /\ IdleVarying /\ IdleBlocks
    /\ \E op \in {"fwd", "adj"}, lead \in 1 .. MaxLeading, sf \in ShapeFaults,
          df \in DtypeFaults, N \in 1 .. MaxN, K \in 1 .. (MaxN * MaxRepeat),
          w \in 1 .. MaxPatchWidth, patch_width \in 0 .. MaxPatchWidth,
          nrepeat \in 1 .. MaxRepeat, supplied \in BOOLEAN :
        pa = [pc |-> "called", op |-> op,
              images |-> IF op = "adj" /\ ~supplied THEN NoneArg
                         ELSE ImagesIn(lead, sf, df),
              positions |-> PositionsIn(lead, sf, df, N),
              patches |-> IF op = "fwd" /\ ~supplied THEN NoneArg
                          ELSE PatchesIn(lead, sf, df, K, w),
              patch_width |-> patch_width, nrepeat |-> nrepeat,
              height |-> 3, width |-> 3,
              exc |-> "none", at |-> NoCall, launched |-> FALSE,
              written |-> {}, ret |-> NoneArg]

\* Patch.fwd up to the kernel launch (lines 61-76)
PatchFwdCall ==
    /\ pa.pc = "called" /\ pa.op = "fwd"
    /\ LET r == Patch_fwd(pa.images, pa.positions, pa.patches, pa.patch_width, pa.nrepeat)
       IN  pa' = IF r.exc # "none" THEN [pa EXCEPT !.pc = "raised", !.exc = r.exc]
                 ELSE [pa EXCEPT !.pc = "launch", !.at = r]
    /\ UNCHANGED <<eigenVars, pt, cm, dv, co, cs, vp, kb>>

\* Patch.adj up to the kernel launch (lines 112-130)
PatchAdjCall ==
    /\ pa.pc = "called" /\ pa.op = "adj"
    /\ LET r == Patch_adj(pa.positions, pa.patches, pa.images, pa.patch_width,
                          pa.height, pa.width, pa.nrepeat)
       IN  pa' = IF r.exc # "none" THEN [pa EXCEPT !.pc = "raised", !.exc = r.exc]
                 ELSE [pa EXCEPT !.pc = "launch", !.at = r]
    /\ UNCHANGED <<eigenVars, pt, cm, dv, co, cs, vp, kb>>

\* lines 77-100 / 131-156: the kernel writes the output buffer, which is returned
PatchLaunch ==
    /\ pa.pc = "launch"
    /\ pa' = [pa EXCEPT !.pc = "returned", !.launched = TRUE,
                        !.written = {pa.at.out},
                        !.ret = IF pa.at.out = "patches" THEN pa.at.patches
                                ELSE pa.at.images]
    /\ UNCHANGED <<eigenVars, pt, cm, dv, co, cs, vp, kb>>

NextPatch == PatchFwdCall \/ PatchAdjCall \/ PatchLaunch

SpecPatch == InitPatch /\ [][NextPatch]_vars

-----------------------------------------------------------------------------
(* Claims about Patch.fwd and Patch.adj *)

PatchActive == pa.pc # "idle"

PatchEnded == PatchActive /\ pa.pc \in {"raised", "returned"}

PatchAccepted == PatchActive /\ pa.pc \in {"launch", "returned"}

\* the array arguments the caller supplied
SuppliedArrays == {x \in {pa.images, pa.positions, pa.patches} : x # NoneArg}

\* the supplied arrays with their number of trailing (non-leading) axes
LeadingDims ==
    {ShapeBut(pa.positions.shape, 2)}
    \cup (IF pa.images = NoneArg THEN {} ELSE {ShapeBut(pa.images.shape, 2)})
    \cup (IF pa.patches = NoneArg THEN {} ELSE {ShapeBut(pa.patches.shape, 3)})

WrongDtype ==
    \/ pa.positions.dtype # "float32"
    \/ pa.images # NoneArg /\ pa.images.dtype # "complex64"
    \/ pa.patches # NoneArg /\ pa.patches.dtype # "complex64"

PreconditionViolated ==
    \/ ShapeAt(pa.positions.shape, 1) # 2
    \/ Cardinality(LeadingDims) > 1
    \/ WrongDtype

\* C11: a call of Patch.fwd without an output buffer whose images and
\* positions meet the preconditions returns a newly allocated buffer of shape
\* (..., N * nrepeat, patch_width, patch_width), whatever patch_width the
\* caller passed, the default 0 included.
C11_FwdAllocates ==
    (PatchEnded /\ pa.op = "fwd" /\ pa.patches = NoneArg /\ ~PreconditionViolated)
    => /\ pa.pc = "returned"
       /\ pa.at.allocated
       /\ pa.ret.shape = ShapeBut(pa.positions.shape, 2)
                         \o <<ShapeAt(pa.positions.shape, 2) * pa.nrepeat,
                              pa.at.patch_width, pa.at.patch_width>>

\* C12: a call of fwd or adj whose arguments violate a precondition
\* (positions.shape[-1] # 2, disagreeing leading dimensions, a dtype other
\* than complex64 / float32) never reaches the kernel launch: it ends by
\* raising, and no buffer is written.
C12_FailFast ==
    (PatchActive /\ PreconditionViolated)
    => /\ pa.pc \in {"called", "raised"}
       /\ ~pa.launched
       /\ pa.written = {}

\* adj was called with a supplied image buffer and patches of the wrong
\* dtype, and has raised
C12_Witness ==
    /\ PatchActive /\ pa.pc = "raised" /\ pa.exc = "AssertionError"
    /\ pa.op = "adj" /\ pa.images # NoneArg
    /\ pa.patches.dtype = "complex128" /\ pa.images.dtype = "complex64"
    /\ ~pa.launched

\* C13 as stated: every accepted call has N * nrepeat = patches.shape[-3].
C13_CountEqualsPatches ==
    PatchAccepted
    => ShapeAt(pa.positions.shape, 2) * pa.nrepeat = ShapeAt(pa.at.patches.shape, 3)

\* C13, amended: an accepted fwd has N * nrepeat = patches.shape[-3]; an
\* accepted adj has a patch count K = patches.shape[-3] that divides
\* N * nrepeat and is at least nrepeat.
C13_CountInvariant ==
    PatchAccepted
    => LET N == ShapeAt(pa.positions.shape, 2)
           K == ShapeAt(pa.at.patches.shape, 3)
       IN  IF pa.op = "fwd" THEN N * pa.nrepeat = K
           ELSE (N * pa.nrepeat) % K = 0 /\ K >= pa.nrepeat

\* a fwd with a supplied buffer of N * nrepeat patches, nrepeat > 1, has returned
C13_Witness ==
    /\ PatchActive /\ pa.pc = "returned" /\ pa.op = "fwd" /\ pa.patches # NoneArg
    /\ pa.nrepeat > 1
    /\ ShapeAt(pa.patches.shape, 3) = ShapeAt(pa.positions.shape, 2) * pa.nrepeat

-----------------------------------------------------------------------------
(* The noise-model costs: tike.operators.cupy.objective (gaussian, poisson) *)
(* and the costs the Propagation operator selects by model name.           *)
(* A batch is a sequence of patterns, a pattern a function from its pixels *)
(* to a value.  Data and intensities are perfect squares, so that the      *)
(* square roots are exact; log is taken to two decimals.                 *)

MaxRoot == 3
MaxPatterns == 2
MaxCopies == 2
NumPixels == 2
NumCostSeeds == 4

Pixels == 1 .. NumPixels

Models == {"gaussian", "poisson"}

\* np.sqrt of a perfect square
Sqrt(x) == CHOOSE r \in 0 .. x : r * r = x

\* np.log(x + eps), eps = 1e-9 or 1e-32, to two decimals; lneps is log(eps)
Log(x, lneps) ==
    CASE x = 0 -> lneps
      [] x = 1 -> Zero
      [] x = 4 -> Rat(139, 100)
      [] x = 9 -> Rat(220, 100)
      [] x = 16 -> Rat(277, 100)
      [] x = 25 -> Rat(322, 100)
      [] x = 36 -> Rat(358, 100)

\* log(1e-9) and log(1e-32)
LogEps9 == Rat(-2072, 100)

LogEps32 == Rat(-7368, 100)

RSub(x, y) == RAdd(x, RMul(I(-1), y))

RLeq(x, y) == x[1] * y[2] <= y[1] * x[2]

\* the elements of a batch, one index per (pattern, pixel)
Elements(batch) == {<<i, x>> : i \in 1 .. Len(batch), x \in Pixels}

\* cp.mean / np.sum of f over every element of the batch
MeanAll(f, batch) ==
    RDiv(RSumSet(f, Elements(batch)), I(Cardinality(Elements(batch))))

SumAll(f, batch) == RSumSet(f, Elements(batch))

\* _gaussian_fuse with the root of the data left out
gaussian_fuse_NoRoot(data_x, intensity_x) ==
    LET df == Sqrt(intensity_x) - data_x
    IN  I(df * df)

\* _gaussian_fuse, lines 11-15, on one element
gaussian_fuse(data_x, intensity_x) ==
    LET df == Sqrt(intensity_x) - Sqrt(data_x)
    IN  I(df * df)

\* gaussian, line 28
gaussian(data, intensity) ==
    MeanAll([e \in Elements(data) |->
                gaussian_fuse(data[e[1]][e[2]], intensity[e[1]][e[2]])], data)

\* _poisson_fuse, lines 73-75, on one element
poisson_fuse(data_x, intensity_x) ==
    RSub(I(intensity_x), RMul(I(data_x), Log(intensity_x, LogEps9)))

\* poisson, line 88
poisson(data, intensity) ==
    MeanAll([e \in Elements(data) |->
                poisson_fuse(data[e[1]][e[2]], intensity[e[1]][e[2]])], data)

\* |z|^2 of a complex number <<re, im>>
Abs2(z) == z[1] * z[1] + z[2] * z[2]

\* np.linalg.norm(farplane.reshape(...), ord=2, axis=2): over the modes, per element
modulus(farplane) ==
    [i \in 1 .. Len(farplane) |-> [x \in Pixels |->
        Sqrt(Abs2(farplane[i][1][x]) + Abs2(farplane[i][2][x]))]]

\* np.square(np.linalg.norm(...)), propagation.py lines 58-62
intensity_of(farplane) ==
    [i \in 1 .. Len(farplane) |-> [x \in Pixels |->
        modulus(farplane)[i][x] * modulus(farplane)[i][x]]]

\* Propagation._gaussian_cost, lines 39-45: the squared norm is a sum
gaussian_cost(data, farplane) ==
    SumAll([e \in Elements(data) |->
               LET df == modulus(farplane)[e[1]][e[2]] - Sqrt(data[e[1]][e[2]])
               IN  I(df * df)], data)

\* Propagation._poisson_cost, lines 57-63
poisson_cost(data, farplane) ==
    SumAll([e \in Elements(data) |->
               LET ity == intensity_of(farplane)[e[1]][e[2]]
               IN  RSub(I(ity), RMul(I(data[e[1]][e[2]]), Log(ity, LogEps32)))], data)

\* Propagation.__init__, line 16: self.cost = getattr(self, f'_{model}_cost')
propagation_cost(model, data, farplane) ==
    IF model = "gaussian" THEN gaussian_cost(data, farplane)
    ELSE poisson_cost(data, farplane)

\* the cost function of objective.py for a model
objective_cost(model, data, intensity) ==
    IF model = "gaussian" THEN gaussian(data, intensity) ELSE poisson(data, intensity)

\* the batch made of k copies of the batch
Tile(batch, k) == [i \in 1 .. (k * Len(batch)) |-> batch[((i - 1) % Len(batch)) + 1]]

\* measured data: nonnegative counts (here perfect squares)
DataIn(seed, i, x) ==
    LET r == (seed + i + 2 * x) % (MaxRoot + 1) IN r * r

\* farplane[i][mode][x]: two modes of complex amplitudes <<re, im>>
ModeVec(k) ==
    CASE k = 0 -> <<<<0, 0>>, <<0, 0>>>>
      [] k = 1 -> <<<<1, 0>>, <<0, 0>>>>
      [] k = 2 -> <<<<0, 0>>, <<0, -2>>>>
      [] k = 3 -> <<<<3, 0>>, <<0, 4>>>>
      [] OTHER -> <<<<0, 3>>, <<0, 0>>>>

FarplaneIn(seed, i, x) == ModeVec((2 * seed + i + x) % 5)

InitCost ==
    /\ IdleEigen /\ IdlePtycho /\ IdleComm /\ IdleDivided
    /\ IdlePatch /\ IdleConstrain /\ IdleVarying /\ IdleBlocks
    /\ \E model \in Models, ds \in 0 .. (NumCostSeeds - 1), fs \in 0 .. (NumCostSeeds - 1),
          np \in 1 .. MaxPatterns, k \in 1 .. MaxCopies :
        co = [pc |-> "objective", model |-> model, k |-> k,
              data |-> [i \in 1 .. np |-> [x \in Pixels |-> DataIn(ds, i, x)]],
              farplane |-> [i \in 1 .. np |-> [m \in 1 .. 2 |-> [x \in Pixels |->
                              FarplaneIn(fs, i, x)[m]]]],
              objective |-> None, objective_k |-> None,
              operator |-> None, operator_k |-> None,
              truth |-> None]

\* objective.gaussian / objective.poisson on the batch and on k copies of it
EvalObjective ==
    /\ co.pc = "objective"
    /\ co' = [co EXCEPT !.pc = "operator",
                !.objective = objective_cost(co.model, co.data, intensity_of(co.farplane)),
                !.objective_k = objective_cost(co.model, Tile(co.data, co.k),
                                               intensity_of(Tile(co.farplane, co.k)))]
    /\ UNCHANGED <<eigenVars, pt, cm, dv, pa, cs, vp, kb>>

\* Propagation(model=...).cost on the batch and on k copies of it
EvalOperator ==
    /\ co.pc = "operator"
    /\ co' = [co EXCEPT !.pc = "truth",
                !.operator = propagation_cost(co.model, co.data, co.farplane),
                !.operator_k = propagation_cost(co.model, Tile(co.data, co.k),
                                                Tile(co.farplane, co.k))]
    /\ UNCHANGED <<eigenVars, pt, cm, dv, pa, cs, vp, kb>>

\* objective.gaussian(data, data) / objective.poisson(data, data)
EvalTruth ==
    /\ co.pc = "truth"
    /\ co' = [co EXCEPT !.pc = "done",
                !.truth = objective_cost(co.model, co.data, co.data)]
    /\ UNCHANGED <<eigenVars, pt, cm, dv, pa, cs, vp, kb>>

NextCost == EvalObjective \/ EvalOperator \/ EvalTruth

SpecCost == InitCost /\ [][NextCost]_vars

-----------------------------------------------------------------------------
(* Claims about the costs *)

CostDone == co.pc = "done"

\* C14: for both models, the cost of a batch made of k copies of the same
\* patterns equals the cost of one copy, for objective.gaussian/poisson and
\* for the cost the Propagation operator selected.
C14_BatchInvariant ==
    CostDone => /\ co.objective_k = co.objective
                /\ co.operator_k = co.operator

\* C15 as stated: the cost of the data against itself is 0 for both models,
\* and the cost is never negative.
C15_ZeroAtTruth ==
    CostDone => /\ co.truth = Zero
                /\ RLeq(Zero, co.objective)

\* C15, amended: gaussian(data, data) is 0 and gaussian is never negative;
\* poisson(data, data) is the least value poisson(data, .) takes, and is 0
\* for all-zero data.
C15_TruthIsMinimum ==
    CostDone =>
        IF co.model = "gaussian"
        THEN co.truth = Zero /\ RLeq(Zero, co.objective)
        ELSE /\ RLeq(co.truth, co.objective)
             /\ (\A e \in Elements(co.data) : co.data[e[1]][e[2]] = 0) => co.truth = Zero

\* the gaussian cost of nonzero data against a different intensity was
\* evaluated and is positive, and against itself is 0
C15_Witness ==
    /\ CostDone /\ co.model = "gaussian"
    /\ \E e \in Elements(co.data) : co.data[e[1]][e[2]] > 1
    /\ co.objective # Zero /\ co.truth = Zero

-----------------------------------------------------------------------------
(* Claim about the weights across update_eigen_probe *)

\* np.mean(weights[..., e, s], axis=-3) of one worker's weights, per view
WeightsMean(ws, v, e, s) == F32Mean([p \in Positions |-> ws[v][p][e][s]])

\* the weights of every varying eigen mode have zero mean over the
\* positions, and the zeroth row is nonzero
WeightsInvariant(ws) ==
    \A w \in DOMAIN ws : \A v \in DOMAIN ws[w] : \A s \in Probes :
        /\ \A e \in WeightRows \ {0} : WeightsMean(ws[w], v, e, s) = F32Zero
        /\ \E p \in Positions : ws[w][v][p][0][s] # F32Zero

\* C16: when the weights have zero mean over the positions for every eigen
\* mode >= 1 and a nonzero zeroth row on entry to update_eigen_probe, the
\* weights the call returns have them too.
C16_WeightsZeroMean ==
    (Active /\ ep.pc = "returned" /\ WeightsInvariant(ep.entry_weights))
    => WeightsInvariant(weights)

-----------------------------------------------------------------------------
(* tike.ptycho.probe.constrain_probe_sparsity and constrain_variable_probe *)
(* A probe is probe[mode][i] with i the flat index of a pixel of the       *)
(* WIDE x HIGH grid and a complex value <<re, im>>.                        *)

MaxWide == 3
MaxHigh == 2
MaxModes == 2
ClipPos == 8
NumClipSeeds == 4

\* the flat indices of the pixels of a (wide, high) grid
FlatPixels(wide, high) == 0 .. (wide * high - 1)

\* the values of f the caller passes
Fractions == {<<0, 1>>, <<1, 4>>, <<1, 2>>, <<3, 5>>, <<5, 6>>, <<1, 1>>}

ComplexZero == <<0, 0>>

\* binary64 arithmetic of line 541.  A nonnegative binary number is the set
\* of the positions of its one bits (position i weighs 2^i, i < 0 behind the
\* point); a binary64 value has its one bits within DoubleBits positions.
MaxOf(S) == CHOOSE i \in S : \A j \in S : j <= i

MinOf(S) == CHOOSE i \in S : \A j \in S : i <= j

\* S + 2^i
RECURSIVE AddBit(_, _)
AddBit(S, i) == IF i \in S THEN AddBit(S \ {i}, i + 1) ELSE S \cup {i}

\* S + B
RECURSIVE AddBits(_, _)
AddBits(S, B) ==
    IF B = {} THEN S
    ELSE LET i == MaxOf(B) IN AddBits(AddBit(S, i), B \ {i})

\* S * 2^sh
ShiftBits(S, sh) == {i + sh : i \in S}

\* the binary64 value nearest to S, ties to even
RoundDouble(S) ==
    IF S = {} THEN S
    ELSE LET cut == MaxOf(S) - (DoubleBits - 1)
             kept == {i \in S : i >= cut}
             rest == {i \in S : i < cut}
             up == (cut - 1) \in rest /\ (rest # {cut - 1} \/ cut \in S)
         IN  IF up THEN AddBit(kept, cut) ELSE kept

\* the bits of rem / q * 2^(pos + 1) from position pos down, until `count`
\* significant bits are collected, and the remainder left then
RECURSIVE QuotientBits(_, _, _, _, _)
QuotientBits(rem, q, pos, count, acc) ==
    IF rem = 0 \/ count = DoubleBits THEN <<acc, rem>>
    ELSE LET r2 == 2 * rem
             bit == r2 >= q
         IN  QuotientBits(IF bit THEN r2 - q ELSE r2, q, pos - 1,
                          IF bit \/ count > 0 THEN count + 1 ELSE 0,
                          IF bit THEN acc \cup {pos} ELSE acc)

\* the Python float f: the binary64 value nearest to f[1] / f[2], for
\* 0 <= f <= 1
BinaryOf(f) ==
    IF f[1] = f[2] THEN {0}
    ELSE LET qr == QuotientBits(f[1], f[2], -1, 0, {})
             bits == qr[1]
             rem == qr[2]
         IN  IF bits = {} THEN bits
             ELSE LET last == MaxOf(bits) - (DoubleBits - 1)
                  IN  IF 2 * rem > f[2] \/ (2 * rem = f[2] /\ last \in bits)
                      THEN AddBit(bits, last) ELSE bits

\* 1 - S for 0 <= S <= 1, exact
OneMinus(S) ==
    IF S = {} THEN {0}
    ELSE IF S = {0} THEN {}
    ELSE LET low == MinOf(S)
         IN  {i \in (low + 1) .. -1 : i \notin S} \cup {low}

\* S * k for a natural number k, exact
RECURSIVE TimesInt(_, _)
TimesInt(S, k) ==
    IF k = 0 THEN {}
    ELSE AddBits(IF k % 2 = 1 THEN S ELSE {}, ShiftBits(TimesInt(S, k \div 2), 1))

\* int(S): the integer part of S
RECURSIVE IntPart(_)
IntPart(S) ==
    LET whole == {i \in S : i >= 0}
    IN  IF whole = {} THEN 0
        ELSE LET i == MaxOf(whole) IN (2 ^ i) + IntPart(whole \ {i})

\* line 541: k = int((1 - f) * probe.shape[-1] * probe.shape[-2]), every
\* operation rounded to binary64, the product taken from the left;
\* probe.shape[-2:] is (wide, high)
sparsity_k(f, wide, high) ==
    LET rest == RoundDouble(OneMinus(BinaryOf(f)))
        by_last == RoundDouble(TimesInt(rest, high))
    IN  IntPart(RoundDouble(TimesInt(by_last, wide)))

\* line 542: np.argpartition(intensity, k, axis=None) raises ValueError
\* unless kth is an index of the flattened array
argpartition_raises(k, size) == ~(0 <= k /\ k < size)

\* lines 533-543: the k pixels where the low-pass filtered intensity is
\* smallest.  The filter (cupyx.scipy.ndimage.gaussian_filter) is a library
\* call: any set of k pixels may be the one it selects.
SmallestSets(k, wide, high) ==
    {S \in SUBSET FlatPixels(wide, high) : Cardinality(S) = k}

\* line 545: probe[..., coords[0], coords[1]] = 0
zero_pixels(probe, smallest) ==
    [md \in DOMAIN probe |-> [i \in DOMAIN probe[md] |->
        IF i \in smallest THEN ComplexZero ELSE probe[md][i]]]

\* a probe without zero pixels
ProbeIn(seed, md, i) == <<1 + ((seed + md + i) % 3), (seed + i) % 2>>

InitSparsity ==
    \E f \in Fractions, wide \in 1 .. MaxWide, high \in 1 .. MaxHigh,
       nm \in 1 .. MaxModes, seed \in 0 .. 1 :
        cs = [pc |-> "called", op |-> "sparsity", f |-> f, wide |-> wide, high |-> high,
              probe |-> [md \in 1 .. nm |-> [i \in FlatPixels(wide, high) |->
                            ProbeIn(seed, md, i)]],
              entry |-> [md \in 1 .. nm |-> [i \in FlatPixels(wide, high) |->
                            ProbeIn(seed, md, i)]],
              exc |-> "none", smallest |-> {}]

\* constrain_probe_sparsity, lines 526-546; the probe is changed in place
ConstrainProbeSparsity ==
    /\ cs.pc = "called" /\ cs.op = "sparsity"
    /\ IF cs.f = <<1, 1>>
       THEN cs' = [cs EXCEPT !.pc = "returned"]
       ELSE LET k == sparsity_k(cs.f, cs.wide, cs.high)
            IN  IF argpartition_raises(k, cs.wide * cs.high)
                THEN cs' = [cs EXCEPT !.pc = "raised", !.exc = "ValueError"]
                ELSE \E smallest \in SmallestSets(k, cs.wide, cs.high) :
                        cs' = [cs EXCEPT !.pc = "returned", !.smallest = smallest,
                                         !.probe = zero_pixels(cs.probe, smallest)]
    /\ UNCHANGED <<eigenVars, pt, cm, dv, pa, co, vp, kb>>

\* <a, b> of two real vectors
Dot(a, b) == RSum([i \in DOMAIN a |-> RMul(a[i], b[i])])

\* tike.linalg.orthogonalize_gs(x, axis): Gram-Schmidt over the mode axis,
\* u[e] = x[e] - sum over j < e of (<x[e], u[j]> / <u[j], u[j]>) u[j]
RECURSIVE orthogonalize_gs(_, _)
orthogonalize_gs(x, e) ==
    IF e = 0 THEN x[0]
    ELSE LET RECURSIVE Minus(_, _)
             Minus(u, j) ==
                 IF j < 0 THEN u
                 ELSE LET uj == orthogonalize_gs(x, j)
                          cf == RDiv(Dot(x[e], uj), Dot(uj, uj))
                      IN  Minus([i \in DOMAIN u |-> RSub(u[i], RMul(cf, uj[i]))], j - 1)
         IN  Minus(x[e], e - 1)

RMin(x, y) == IF RLeq(x, y) THEN x ELSE y

\* cp.sign
RSign(x) == I(IF x[1] > 0 THEN 1 ELSE IF x[1] < 0 THEN -1 ELSE 0)

\* the values of f over S in ascending order
RECURSIVE SortedValues(_, _)
SortedValues(f, S) ==
    IF S = {} THEN <<>>
    ELSE LET k == CHOOSE k \in S : \A j \in S : RLeq(f[k], f[j])
         IN  <<f[k]>> \o SortedValues(f, S \ {k})

\* cp.percentile(a, [q], axis): linear interpolation between the two order
\* statistics around the index (n - 1) * q / 100
percentile(f, q) ==
    LET srt == SortedValues(f, DOMAIN f)
        h == (Len(srt) - 1) * q
        lo == h \div 100
        frac == Rat(h % 100, 100)
    IN  IF lo + 2 > Len(srt) THEN srt[lo + 1]
        ELSE RAdd(srt[lo + 1], RMul(frac, RSub(srt[lo + 2], srt[lo + 1])))

\* lines 144-152: 1.5 * cp.percentile(aevol, [95], axis=[-3], keepdims=True)
\* .astype(weights.dtype).  The percentile is kept as the exact rational: the
\* rounding of the cast to the dtype of weights (float32) is not applied, so
\* the bound is the one of real arithmetic
clip_bound(wts, v, e, s) ==
    RMul(Rat(3, 2), percentile([p \in DOMAIN wts[v] |-> RAbs(wts[v][p][e][s])], 95))

\* line 153 without the factor cp.sign(weights)
clip_weight_NoSign(x, bound) == RMin(RAbs(x), bound)

\* lines 145-153: cp.minimum(aevol, bound) * cp.sign(weights), on one element
clip_weight(x, bound) == RMul(RMin(RAbs(x), bound), RSign(x))

\* constrain_variable_probe, lines 143-153: the new weights array.
\* cp.percentile is CuPy's: with keepdims=True and a q of one entry its
\* result has the shape of aevol with the axis -3 of length 1 (an axis for q
\* is put in front only when q.size > 1), so the result of cp.minimum has
\* the shape of weights, (..., POSI, EIGEN + 1, SHARED)
clip_weights(wts) ==
    [v \in DOMAIN wts |-> [p \in DOMAIN wts[v] |-> [e \in WeightRows |-> [s \in Probes |->
        clip_weight(wts[v][p][e][s], clip_bound(wts, v, e, s))]]]]

ClipWeightIn(seed, v, p, e, s) ==
    CASE seed = 0 -> I(IF (p + e + s) % 2 = 0 THEN 1 ELSE -1)
      [] seed = 1 -> IF p = 0 THEN I(-30 * (1 + v)) ELSE I(p % 2)
      [] seed = 2 -> IF p = 1 /\ e >= 1 THEN I(40 + s) ELSE Rat(1 - 2 * (p % 2), 2)
      [] OTHER -> IF p = (e % 2) THEN I(1 - 2 * s) ELSE Zero

\* variable_probe[e][i]: the eigen probes, each a real vector
VariableProbeIn(seed, e, i) == I(((seed + e * i) % 3) - (e % 2))

InitClip ==
    \E seed \in 0 .. (NumClipSeeds - 1), nv \in 1 .. MaxViews, np \in 1 .. ClipPos :
        cs = [pc |-> "called", op |-> "clip",
              weights |-> [v \in Views(nv) |-> [p \in 0 .. (np - 1) |->
                            [e \in WeightRows |-> [s \in Probes |->
                                ClipWeightIn(seed, v, p, e, s)]]]],
              variable_probe |-> [e \in EigenModes |-> [i \in 1 .. 2 |->
                                    VariableProbeIn(seed, e, i)]],
              ret_probe |-> None, ret_weights |-> None]

InitConstrain ==
    /\ IdleEigen /\ IdlePtycho /\ IdleComm /\ IdleDivided
    /\ IdlePatch /\ IdleCost /\ IdleVarying /\ IdleBlocks
    /\ (InitSparsity \/ InitClip)

\* constrain_variable_probe, lines 130-157
ConstrainVariableProbe ==
    /\ cs.pc = "called" /\ cs.op = "clip"
    /\ cs' = [cs EXCEPT !.pc = "returned",
                !.ret_probe = [e \in EigenModes |-> orthogonalize_gs(cs.variable_probe, e)],
                !.ret_weights = clip_weights(cs.weights)]
    /\ UNCHANGED <<eigenVars, pt, cm, dv, pa, co, vp, kb>>

NextConstrain == ConstrainProbeSparsity \/ ConstrainVariableProbe

SpecConstrain == InitConstrain /\ [][NextConstrain]_vars

-----------------------------------------------------------------------------
(* Claims about the probe constraints *)

SparsityEnded == cs.pc \in {"returned", "raised"} /\ cs.op = "sparsity"

\* the pixels of a mode that are exactly zero
ZeroSet(probe, md) == {i \in DOMAIN probe[md] : probe[md][i] = ComplexZero}

\* C17: constrain_probe_sparsity(probe, f) succeeds for every f in [0, 1];
\* the same pixels are zero in every mode; the number of exactly-zero pixels
\* is at least (1 - f) * width * height and at most one more; with f = 1
\* the probe is returned unchanged.
C17_SparsityCount ==
    SparsityEnded
    => /\ cs.pc = "returned"
       /\ \A a, b \in DOMAIN cs.probe : ZeroSet(cs.probe, a) = ZeroSet(cs.probe, b)
       /\ LET nzero == Cardinality(ZeroSet(cs.probe, 1))
              want == (cs.f[2] - cs.f[1]) * cs.wide * cs.high
          IN  /\ nzero * cs.f[2] >= want
              /\ nzero * cs.f[2] <= want + cs.f[2]
       /\ (cs.f = <<1, 1>> => cs.probe = cs.entry)

ClipReturned == cs.pc = "returned" /\ cs.op = "clip"

\* C18: every weight constrain_variable_probe returns has the magnitude
\* min(|w|, 1.5 * p95), p95 the 95th percentile of |weights| over the
\* positions of its eigen mode (and probe), never the opposite sign of the
\* input weight w, and equals w when |w| is within the bound.
C18_OutlierClipping ==
    ClipReturned =>
        \A v \in DOMAIN cs.weights : \A p \in DOMAIN cs.weights[v] :
        \A e \in WeightRows : \A s \in Probes :
            LET x == cs.weights[v][p][e][s]
                r == cs.ret_weights[v][p][e][s]
                p95 == percentile([q \in DOMAIN cs.weights[v] |->
                                      RAbs(cs.weights[v][q][e][s])], 95)
                bound == RMul(Rat(3, 2), p95)
            IN  /\ RAbs(r) = RMin(RAbs(x), bound)
                /\ r[1] * x[1] >= 0
                /\ (RLeq(RAbs(x), bound) => r = x)

\* a negative outlier was clipped to a smaller magnitude and stayed
\* negative, while another weight of the same mode was returned unchanged
C18_Witness ==
    /\ ClipReturned
    /\ \E v \in DOMAIN cs.weights : \E p, q \in DOMAIN cs.weights[v] :
       \E e \in WeightRows : \E s \in Probes :
            /\ cs.weights[v][p][e][s][1] < 0
            /\ cs.ret_weights[v][p][e][s][1] < 0
            /\ cs.ret_weights[v][p][e][s] # cs.weights[v][p][e][s]
            /\ cs.weights[v][q][e][s] # Zero
            /\ cs.ret_weights[v][q][e][s] = cs.weights[v][q][e][s]

-----------------------------------------------------------------------------
(* tike.ptycho.probe.init_varying_probe and get_varying_probe              *)
(* shared_probe[v][s], eigen_probe[v][c][s] and weights[v][p][e][s] hold   *)
(* one real pixel per probe.  An array value is a record with the identity *)
(* of its buffer; the Python value None is NoneValue.                      *)

NumRandSeeds == 3

NoneValue == [kind |-> "None"]

Buffer(id, value) == [kind |-> "array", id |-> id, value |-> value]

\* x + y
RPlus(x, y) == RAdd(x, y)

RECURSIVE RPlusSet(_, _)
RPlusSet(f, S) ==
    IF S = {} THEN Zero
    ELSE LET k == CHOOSE k \in S : TRUE
         IN  RPlus(f[k], RPlusSet(f, S \ {k}))

\* np.mean over one axis
RMeanL(f) == RDiv(RPlusSet(f, DOMAIN f), I(Cardinality(DOMAIN f)))

\* line 391: probes_with_modes = max(probes_with_modes, 0)
clamp_probes_with_modes(probes_with_modes) ==
    IF probes_with_modes > 0 THEN probes_with_modes ELSE 0

\* lines 399-403: 1e-6 * np.random.rand(...), rand the random array
scaled_rand(rand) ==
    [v \in DOMAIN rand |-> [p \in DOMAIN rand[v] |-> [e \in DOMAIN rand[v][p] |->
        [s \in DOMAIN rand[v][p][e] |-> RMul(Rat(1, 1000000), rand[v][p][e][s])]]]]

\* line 404: weights -= np.mean(weights, axis=-3, keepdims=True)
subtract_mean(wts) ==
    [v \in DOMAIN wts |-> [p \in DOMAIN wts[v] |-> [e \in DOMAIN wts[v][p] |->
        [s \in DOMAIN wts[v][p][e] |->
            RPlus(wts[v][p][e][s],
                  RMul(I(-1), RMeanL([q \in DOMAIN wts[v] |-> wts[v][q][e][s]])))]]]]

\* lines 406-408 without line 406: the zeroth row is left as it is
set_rows_NoFirst(wts, probes_with_modes) ==
    [v \in DOMAIN wts |-> [p \in DOMAIN wts[v] |-> [e \in DOMAIN wts[v][p] |->
        [s \in DOMAIN wts[v][p][e] |->
            IF e >= 1 /\ s >= probes_with_modes THEN Zero ELSE wts[v][p][e][s]]]]]

\* lines 406-408: weights[..., 0, :] = 1.0; weights[..., 1:, probes_with_modes:] = 0
set_rows(wts, probes_with_modes) ==
    [v \in DOMAIN wts |-> [p \in DOMAIN wts[v] |-> [e \in DOMAIN wts[v][p] |->
        [s \in DOMAIN wts[v][p][e] |->
            IF e = 0 THEN I(1)
            ELSE IF s >= probes_with_modes THEN Zero
            ELSE wts[v][p][e][s]]]]]

\* tike.linalg.mnorm over the pixel axes, of a one-pixel real array in
\* exact arithmetic
mnorm(x) == RAbs(x)

\* lines 413-420: the random eigen probes, each divided by its mnorm
normalized_eigen(rnd) ==
    [v \in DOMAIN rnd |-> [c \in DOMAIN rnd[v] |-> [s \in DOMAIN rnd[v][c] |->
        RDiv(rnd[v][c][s], mnorm(rnd[v][c][s]))]]]

\* init_varying_probe, lines 391-422; rand and rnd are the random arrays
\* np.random.rand and tike.random.numpy_complex return
init_varying_probe(nshared, num_eigen_probes, probes_with_modes, rand, rnd) ==
    LET pwm == clamp_probes_with_modes(probes_with_modes)
    IN  IF pwm > nshared
        THEN [exc |-> "ValueError", eigen_probe |-> NoneValue, weights |-> NoneValue]
        ELSE IF num_eigen_probes < 1
        THEN [exc |-> "none", eigen_probe |-> NoneValue, weights |-> NoneValue]
        ELSE LET wts == Buffer("weights", set_rows(subtract_mean(scaled_rand(rand)), pwm))
             IN  IF num_eigen_probes = 1
                 THEN [exc |-> "none", eigen_probe |-> NoneValue, weights |-> wts]
                 ELSE [exc |-> "none",
                       eigen_probe |-> Buffer("eigen_probe", normalized_eigen(rnd)),
                       weights |-> wts]

\* line 117: weights[..., [0], :, None, None] * shared_probe
shared_term(shared, wts) ==
    [v \in DOMAIN wts |-> [p \in DOMAIN wts[v] |-> [s \in DOMAIN shared[v] |->
        RMul(wts[v][p][0][s], shared[v][s])]]]

\* lines 123-124 with weights[..., [c], ...] for weights[..., [c + 1], ...]
varying_term_SkipFirst(wts, eigen, v, p, c, s) == RMul(wts[v][p][c][s], eigen[v][c][s])

\* lines 123-124: weights[..., [c + 1], :m, None, None] * eigen_probe[..., [c], :m, :, :]
varying_term(wts, eigen, v, p, c, s) == RMul(wts[v][p][c + 1][s], eigen[v][c][s])

\* lines 120-124: the loop over c in range(eigen_probe.shape[-4]), up to c
RECURSIVE add_eigen_terms(_, _, _, _)
add_eigen_terms(unique_probe, wts, eigen, c) ==
    IF c < 0 THEN unique_probe
    ELSE LET before == add_eigen_terms(unique_probe, wts, eigen, c - 1)
         IN  [v \in DOMAIN before |-> [p \in DOMAIN before[v] |-> [s \in DOMAIN before[v][p] |->
                IF s \in DOMAIN eigen[v][c]
                THEN RPlus(before[v][p][s], varying_term(wts, eigen, v, p, c, s))
                ELSE before[v][p][s]]]]

\* eigen_probe.shape[-4]
NumEigen(eigen) == Cardinality(DOMAIN eigen[CHOOSE v \in DOMAIN eigen : TRUE])

\* get_varying_probe, lines 115-127
get_varying_probe(shared_probe, eigen_probe_, weights_) ==
    IF weights_ # NoneValue
    THEN LET unique_probe == shared_term(shared_probe.value, weights_.value)
         IN  IF eigen_probe_ # NoneValue
             THEN Buffer("unique_probe",
                         add_eigen_terms(unique_probe, weights_.value, eigen_probe_.value,
                                         NumEigen(eigen_probe_.value) - 1))
             ELSE Buffer("unique_probe", unique_probe)
    ELSE Buffer("copy", shared_probe.value)

\* np.random.rand: values in [0, 1)
RandIn(seed, v, p, e, s) == Rat((seed + v + 2 * p + e + 3 * s) % 4, 4)

\* tike.random.numpy_complex: nonzero values
EigenRandIn(seed, v, c, s) == I(IF (seed + v + c + s) % 2 = 0 THEN 2 ELSE -3)

SharedProbeIn(seed, v, s) == I(1 + ((seed + v + s) % 3))

\* weights and eigen probes a caller holds after some updates
CallerWeightIn(seed, v, p, e, s) == I(((seed + p + 2 * e + s + v) % 5) - 2)

CallerEigenIn(seed, v, c, s) == I(((seed + 2 * c + s + v) % 3) - 1)

InitVarying ==
    /\ IdleEigen /\ IdlePtycho /\ IdleComm /\ IdleDivided
    /\ IdlePatch /\ IdleCost /\ IdleConstrain /\ IdleBlocks
    /\ \E source \in {"init", "caller"}, nshared \in 1 .. Shared,
          num_eigen_probes \in 0 .. (Eigen + 1), probes_with_modes \in -1 .. (Shared + 1),
          nv \in 1 .. MaxViews, seed \in 0 .. (NumRandSeeds - 1) :
        /\ source = "caller" => 0 <= probes_with_modes /\ probes_with_modes <= nshared
        /\ vp = [pc |-> IF source = "init" THEN "init" ELSE "ready",
                 source |-> source, nshared |-> nshared,
                 num_eigen_probes |-> num_eigen_probes,
                 probes_with_modes |-> probes_with_modes, nv |-> nv, seed |-> seed,
                 shared_probe |-> Buffer("shared_probe",
                     [v \in Views(nv) |-> [s \in 0 .. (nshared - 1) |->
                         SharedProbeIn(seed, v, s)]]),
                 weights |-> IF source = "init" \/ num_eigen_probes < 1 THEN NoneValue
                     ELSE Buffer("weights",
                         [v \in Views(nv) |-> [p \in Positions |->
                          [e \in 0 .. (num_eigen_probes - 1) |-> [s \in 0 .. (nshared - 1) |->
                             CallerWeightIn(seed, v, p, e, s)]]]]),
                 eigen_probe |-> IF source = "init" \/ num_eigen_probes <= 1 THEN NoneValue
                     ELSE Buffer("eigen_probe",
                         [v \in Views(nv) |-> [c \in 0 .. (num_eigen_probes - 2) |->
                          [s \in 0 .. (probes_with_modes - 1) |->
                             CallerEigenIn(seed, v, c, s)]]]),
                 exc |-> "none", ret |-> NoneValue]

\* init_varying_probe(scan, shared_probe, num_eigen_probes, probes_with_modes)
InitVaryingProbe ==
    /\ vp.pc = "init"
    /\ LET rand == [v \in Views(vp.nv) |-> [p \in Positions |->
                    [e \in 0 .. (vp.num_eigen_probes - 1) |-> [s \in 0 .. (vp.nshared - 1) |->
                        RandIn(vp.seed, v, p, e, s)]]]]
           pwm == clamp_probes_with_modes(vp.probes_with_modes)
           rnd == [v \in Views(vp.nv) |-> [c \in 0 .. (vp.num_eigen_probes - 2) |->
                    [s \in 0 .. (pwm - 1) |-> EigenRandIn(vp.seed, v, c, s)]]]
           r == init_varying_probe(vp.nshared, vp.num_eigen_probes, vp.probes_with_modes,
                                   rand, rnd)
       IN  vp' = [vp EXCEPT !.pc = IF r.exc = "none" THEN "ready" ELSE "raised",
                            !.exc = r.exc,
                            !.eigen_probe = r.eigen_probe, !.weights = r.weights]
    /\ UNCHANGED <<eigenVars, pt, cm, dv, pa, co, cs, kb>>

\* get_varying_probe(shared_probe, eigen_probe, weights)
GetVaryingProbe ==
    /\ vp.pc = "ready"
    /\ vp' = [vp EXCEPT !.pc = "done",
                !.ret = get_varying_probe(vp.shared_probe, vp.eigen_probe, vp.weights)]
    /\ UNCHANGED <<eigenVars, pt, cm, dv, pa, co, cs, kb>>

NextVarying == InitVaryingProbe \/ GetVaryingProbe

SpecVarying == InitVarying /\ [][NextVarying]_vars

-----------------------------------------------------------------------------
(* Claims about the varying probe *)

\* the number of shared probes that have eigen probes: eigen_probe.shape[-3]
ProbesWithEigen(eigen) ==
    Cardinality(DOMAIN eigen[CHOOSE v \in DOMAIN eigen : TRUE][0])

\* the sum over the eigen modes c of weights[c + 1] * eigen_probe[c]
EigenSum(wts, eigen, v, p, s) ==
    RPlusSet([c \in DOMAIN eigen[v] |-> RMul(wts[v][p][c + 1][s], eigen[v][c][s])],
             DOMAIN eigen[v])

\* C19: get_varying_probe returns, at each position, weights[0] *
\* shared_probe plus, for the first m shared probes only, the sum over the
\* eigen modes c of weights[c + 1] * eigen_probe[c]; weights[0] *
\* shared_probe when eigen_probe is None; and a copy of shared_probe in a
\* buffer of its own when weights is None.
C19_VaryingProbe ==
    vp.pc = "done" =>
        IF vp.weights = NoneValue
        THEN /\ vp.ret.value = vp.shared_probe.value
             /\ vp.ret.id # vp.shared_probe.id
        ELSE LET sh == vp.shared_probe.value
                 wts == vp.weights.value
             IN  \A v \in DOMAIN wts : \A p \in DOMAIN wts[v] : \A s \in DOMAIN sh[v] :
                    vp.ret.value[v][p][s] =
                        RPlus(RMul(wts[v][p][0][s], sh[v][s]),
                              IF vp.eigen_probe # NoneValue
                                 /\ s < ProbesWithEigen(vp.eigen_probe.value)
                              THEN EigenSum(wts, vp.eigen_probe.value, v, p, s)
                              ELSE Zero)

\* a varying probe was built from two eigen modes that only the first of
\* two shared probes has, and the first probe got a nonzero eigen term
C19_Witness ==
    /\ vp.pc = "done" /\ vp.weights # NoneValue /\ vp.eigen_probe # NoneValue
    /\ vp.nshared = 2 /\ ProbesWithEigen(vp.eigen_probe.value) = 1
    /\ Cardinality(DOMAIN vp.eigen_probe.value[0]) >= 2
    /\ \E p \in Positions :
        /\ vp.weights.value[0][p][0][0] # I(1)
        /\ vp.ret.value[0][p][0] #
               RMul(vp.weights.value[0][p][0][0], vp.shared_probe.value[0][0])

InitReturned == vp.pc # "idle" /\ vp.source = "init" /\ vp.pc \in {"ready", "raised"}

\* C20: init_varying_probe raises ValueError exactly when probes_with_modes
\* exceeds the number of shared probes; otherwise eigen_probe is None
\* exactly when num_eigen_probes <= 1 and weights is None exactly when
\* num_eigen_probes < 1, eigen_probe has num_eigen_probes - 1 modes for
\* probes_with_modes probes, and weights has num_eigen_probes rows per
\* position, the zeroth row 1 and the rows >= 1 zero for the probes that
\* are not allowed to vary.
C20_InitVaryingProbe ==
    InitReturned =>
        LET pwm == IF vp.probes_with_modes > 0 THEN vp.probes_with_modes ELSE 0
        IN  /\ (vp.pc = "raised") = (vp.probes_with_modes > vp.nshared)
            /\ vp.pc = "raised" => vp.exc = "ValueError"
            /\ vp.pc = "ready" =>
                /\ (vp.eigen_probe = NoneValue) = (vp.num_eigen_probes <= 1)
                /\ (vp.weights = NoneValue) = (vp.num_eigen_probes < 1)
                /\ vp.eigen_probe # NoneValue =>
                    \A v \in Views(vp.nv) :
                        /\ DOMAIN vp.eigen_probe.value[v] = 0 .. (vp.num_eigen_probes - 2)
                        /\ \A c \in DOMAIN vp.eigen_probe.value[v] :
                              DOMAIN vp.eigen_probe.value[v][c] = 0 .. (pwm - 1)
                /\ vp.weights # NoneValue =>
                    \A v \in Views(vp.nv) : \A p \in Positions :
                        /\ DOMAIN vp.weights.value[v][p] = 0 .. (vp.num_eigen_probes - 1)
                        /\ \A e \in DOMAIN vp.weights.value[v][p] :
                           \A s \in 0 .. (vp.nshared - 1) :
                              /\ e = 0 => vp.weights.value[v][p][e][s] = I(1)
                              /\ (e >= 1 /\ s >= pwm) => vp.weights.value[v][p][e][s] = Zero

\* init_varying_probe returned two eigen modes for one of two shared probes,
\* with nonzero weights for the probe that varies
C20_Witness ==
    /\ InitReturned /\ vp.pc = "ready"
    /\ vp.num_eigen_probes = 3 /\ vp.probes_with_modes = 1 /\ vp.nshared = 2
    /\ vp.eigen_probe # NoneValue
    /\ \E p \in Positions : vp.weights.value[0][p][1][0] # Zero

-----------------------------------------------------------------------------
(* Claims about what update_eigen_probe leaves alone *)

\* the eigen mode and probe the call selects in eigen_probe, and the row
\* and column it selects in weights
SelectedEigen == <<ep.c - 1, ep.m>>

SelectedWeight == <<ep.c, ep.m>>

\* C21: no step of update_eigen_probe(c, m) changes R, patches or diff, an
\* element of eigen_probe outside eigen mode c - 1 of probe m, or an element
\* of weights outside column (c, m), on any worker; the zeroth row of
\* weights is among the elements left alone.
C21_OnlySelectedPair ==
    [][Active =>
        /\ R' = R /\ patches' = patches /\ diff' = diff
        /\ \A w \in W : \A v \in Views(ep.nv) :
            /\ \A e \in EigenModes : \A s \in Probes :
                  <<e, s>> # SelectedEigen =>
                      eigen_probe'[w][v][e][s] = eigen_probe[w][v][e][s]
            /\ \A p \in Positions : \A e \in WeightRows : \A s \in Probes :
                  <<e, s>> # SelectedWeight =>
                      weights'[w][v][p][e][s] = weights[w][v][p][e][s]
    ]_vars

\* a call has returned with the selected eigen mode and the selected weight
\* column written on two workers, the other elements as on entry
C21_Witness ==
    /\ Active /\ ep.pc = "returned" /\ ep.nw >= 2
    /\ \A w \in W :
        /\ eigen_probe[w][0][ep.c - 1][ep.m] # ep.entry_eigen[w][0][ep.c - 1][ep.m]
        /\ \E p \in Positions :
              weights[w][0][p][ep.c][ep.m] # ep.entry_weights[w][0][p][ep.c][ep.m]
        /\ \A p \in Positions : weights[w][0][p][0] = ep.entry_weights[w][0][p][0]

\* update_eigen_probe has raised the ValueError of line 219
RaisedValueError == Active /\ ep.pc = "raised" /\ ep.exc = "ValueError"

\* C22: when update_eigen_probe raises the ValueError of the degenerate
\* normalization, eigen_probe and weights of every worker are as on entry,
\* no reduction across nodes has run and no worker has computed n, d or
\* d_mean: the error leaves the first pool.map.
C22_ValueErrorLeavesState ==
    RaisedValueError =>
        /\ ep.job = "_get_update"
        /\ eigen_probe = ep.entry_eigen
        /\ weights = ep.entry_weights
        /\ ep.mpi_calls = 0
        /\ \A w \in W : n[w] = None /\ d[w] = None /\ d_mean[w] = None

\* the ValueError came from one of two workers, the other worker's
\* _get_update having returned its update
C22_Witness ==
    /\ RaisedValueError /\ ep.nw >= 2
    /\ \E w \in W : ep.task[w] = "raised"
    /\ \E w \in W : ep.task[w] = "done" /\ update[w] # None

-----------------------------------------------------------------------------
(* tike.operators.cupy.patch: _next_power_two and the block size of the    *)
(* kernel launches of Patch.fwd and Patch.adj.  A Python int has no width: *)
(* a nonnegative int is the set of the positions of its one bits, so that  *)
(* the shifts, ors and the two additions act on it as they do in Python.   *)

WidthBits == 32

MaxTopBit == 33

NumLowPatterns == 4

NumDevices == 4

\* the int 0
NoBits == {}

TopBit(v) == CHOOSE i \in v : \A j \in v : j <= i

LowBit(v) == CHOOSE i \in v : \A j \in v : i <= j

\* v >> k
ShiftRight(v, k) == {i - k : i \in {j \in v : j >= k}}

\* v | w
BitOr(v, w) == v \cup w

\* v - 1, for v >= 1
Decrement(v) == (v \ {LowBit(v)}) \cup (0 .. (LowBit(v) - 1))

\* v + 1
Increment(v) ==
    LET z == CHOOSE i \in 0 .. (Cardinality(v)) :
                i \notin v /\ \A j \in 0 .. (i - 1) : j \in v
    IN  {i \in v : i > z} \cup {z}

\* v < w
BitsLess(v, w) ==
    /\ v # w
    /\ TopBit((v \ w) \cup (w \ v)) \in w

\* min(v, w): the first argument when they are equal
BitsMin(v, w) == IF BitsLess(w, v) THEN w ELSE v

\* v |= v >> k
Smear(v, k) == BitOr(v, ShiftRight(v, k))

\* lines 27-31: the five statements v |= v >> 1, 2, 4, 8, 16
SmearAll(v) == Smear(Smear(Smear(Smear(Smear(v, 1), 2), 4), 8), 16)

\* _next_power_two without line 26, v -= 1
next_power_two_NoDecrement(v) == Increment(SmearAll(v))

\* _next_power_two, lines 26-32.  For v = 0 line 26 gives -1, every bit
\* set, which the shifts and ors leave alone and line 32 takes to 0.
next_power_two(v) ==
    IF v = NoBits THEN NoBits ELSE Increment(SmearAll(Decrement(v)))

\* lines 83-84 and 137-138:
\* blocks = (min(_next_power_two(patch_width), max_threads_per_block),)
block_size(patch_width, max_threads_per_block) ==
    BitsMin(next_power_two(patch_width), max_threads_per_block)

\* the bits below the top bit t of a patch width
LowPattern(k, t) ==
    IF k = 0 THEN {}
    ELSE IF k = 1 THEN 0 .. (t - 1)
    ELSE IF k = 2 THEN {0} \cap (0 .. (t - 1))
    ELSE IF k = 3 THEN {t - 1} \cap (0 .. (t - 1))
    ELSE {i \in 0 .. (t - 1) : i % (k - 2) = 1}

BitsLeq(v, w) == v = w \/ BitsLess(v, w)

\* the patch widths of the calls: 0 and, for every top bit, the power of
\* two, the width before the next one, the width after it and others
PatchWidthIn ==
    {NoBits} \cup
    {{t} \cup LowPattern(k, t) : t \in 0 .. MaxTopBit, k \in 0 .. (NumLowPatterns - 1)}

\* _fwd_patch.attributes['max_threads_per_block']: the limit the device
\* reports for the kernel, a multiple of the warp size: 1024, 768, 512, 384, ...
DeviceLimit(i) ==
    IF i % 2 = 0 THEN {10 - i \div 2} ELSE {9 - i \div 2, 8 - i \div 2}

\* patches.shape[-1] of the calls with the argument patch_width: that
\* width, one more (padded patches), one less, and every width of
\* PatchWidthIn when patch_width is left at its default 0
PatchesWidthIn(patch_width) ==
    IF patch_width = NoBits THEN PatchWidthIn
    ELSE {patch_width, Increment(patch_width), Decrement(patch_width)}

InitBlocks ==
    /\ IdleEigen /\ IdlePtycho /\ IdleComm /\ IdleDivided
    /\ IdlePatch /\ IdleCost /\ IdleConstrain /\ IdleVarying
    /\ \E op \in {"fwd", "adj"}, patch_width \in PatchWidthIn,
          i \in 0 .. (NumDevices - 1), given \in BOOLEAN :
       \E patches_width \in (IF given THEN PatchesWidthIn(patch_width) ELSE {NoBits}) :
        /\ (op = "adj" => given)
        /\ kb = [pc |-> "call", op |-> op, patch_width |-> patch_width,
                 patches_given |-> given, patches_width |-> patches_width,
                 max_threads_per_block |-> DeviceLimit(i), blocks |-> NoBits,
                 exc |-> "none"]

\* lines 61-68 of fwd and 112-113 of adj, then the launch of lines 83-84 and
\* 137-138: patch_width == 0 is replaced by patches.shape[-1] (an
\* AttributeError when patches is None), fwd allocates missing patches of
\* width patch_width, and the call goes on only if
\* patch_width <= patches.shape[-1]
blocks_call(k) ==
    IF k.patch_width = NoBits /\ ~k.patches_given
    THEN [k EXCEPT !.pc = "raised", !.exc = "AttributeError"]
    ELSE LET width == IF k.patch_width = NoBits THEN k.patches_width ELSE k.patch_width
             patches_width == IF k.patches_given THEN k.patches_width ELSE width
         IN  IF ~BitsLeq(width, patches_width)
             THEN [k EXCEPT !.pc = "raised", !.exc = "AssertionError",
                            !.patch_width = width]
             ELSE [k EXCEPT !.pc = "launched", !.patch_width = width,
                            !.patches_given = TRUE, !.patches_width = patches_width,
                            !.blocks = block_size(width, k.max_threads_per_block)]

\* Patch.fwd, lines 61-84
BlocksFwd ==
    /\ kb.pc = "call" /\ kb.op = "fwd"
    /\ kb' = blocks_call(kb)
    /\ UNCHANGED <<eigenVars, pt, cm, dv, pa, co, cs, vp>>

\* Patch.adj, lines 112-138
BlocksAdj ==
    /\ kb.pc = "call" /\ kb.op = "adj"
    /\ kb' = blocks_call(kb)
    /\ UNCHANGED <<eigenVars, pt, cm, dv, pa, co, cs, vp>>

NextBlocks == BlocksFwd \/ BlocksAdj

SpecBlocks == InitBlocks /\ [][NextBlocks]_vars

-----------------------------------------------------------------------------
(* Claims about the block size *)

Launched == kb.pc = "launched"

IsPowerOfTwo(v) == Cardinality(v) = 1

\* 1 <= v <= 2^31
InWidthRange(v) == v # NoBits /\ (TopBit(v) < WidthBits - 1 \/ v = {WidthBits - 1})

\* the smallest power of two >= v, for v >= 1
SmallestPowerAtLeast(v) == IF IsPowerOfTwo(v) THEN v ELSE {TopBit(v) + 1}

\* the block size is min(P, max_threads_per_block), at most the device
\* limit, and at least the patch width when that is within the limit
BlockSizeBounded ==
    LET P == SmallestPowerAtLeast(kb.patch_width)
    IN  /\ next_power_two(kb.patch_width) = P
        /\ kb.blocks = BitsMin(P, kb.max_threads_per_block)
        /\ BitsLeq(kb.blocks, kb.max_threads_per_block)
        /\ BitsLeq(kb.patch_width, kb.max_threads_per_block) =>
                BitsLeq(kb.patch_width, kb.blocks)

\* C23 as stated: for 1 <= patch_width <= 2^31 the block size of fwd and
\* adj is min(P, max_threads_per_block), P the smallest power of two >=
\* patch_width; it is a power of two, at most the device limit, and >=
\* patch_width whenever patch_width <= max_threads_per_block.
C23_BlockSizePowerOfTwo ==
    (Launched /\ InWidthRange(kb.patch_width)) =>
        /\ BlockSizeBounded
        /\ IsPowerOfTwo(kb.blocks)

\* C23, amended: for 1 <= patch_width <= 2^31 the block size of fwd and adj
\* is min(P, max_threads_per_block); it is at most the device limit, >=
\* patch_width whenever patch_width <= max_threads_per_block, and a power
\* of two whenever P <= max_threads_per_block or the limit is a power of two.
C23_BlockSize ==
    (Launched /\ InWidthRange(kb.patch_width)) =>
        /\ BlockSizeBounded
        /\ (\/ BitsLeq(SmallestPowerAtLeast(kb.patch_width), kb.max_threads_per_block)
            \/ IsPowerOfTwo(kb.max_threads_per_block)) => IsPowerOfTwo(kb.blocks)

\* a launch with a patch width that is no power of two and within the
\* limit: the block size is the next power of two, above the patch width
C23_Witness ==
    /\ Launched /\ InWidthRange(kb.patch_width)
    /\ ~IsPowerOfTwo(kb.patch_width)
    /\ BitsLess(kb.patch_width, kb.max_threads_per_block)
    /\ BitsLess(kb.patch_width, kb.blocks)
    /\ IsPowerOfTwo(kb.blocks)

-----------------------------------------------------------------------------
(* The components together *)

Init ==
    \/ InitEigen \/ InitPtycho \/ InitComm \/ InitDivided
    \/ InitPatch \/ InitCost \/ InitConstrain \/ InitVarying \/ InitBlocks

Next ==
    \/ NextEigen \/ NextPtycho \/ NextComm \/ NextDivided
    \/ NextPatch \/ NextCost \/ NextConstrain \/ NextVarying \/ NextBlocks

Spec == Init /\ [][Next]_vars

====
